---- MODULE Spec2Model ----
(***************************************************************************)
(* Field classification and fill orchestration of the job-application     *)
(* agent.  Three components are modelled, each with its own specification  *)
(* over the shared variable list:                                          *)
(*   Spec       the LangGraph workflow (graph/workflow.py, graph/nodes.py, *)
(*              graph/routing.py)                                          *)
(*   SpecAgent  the planning loop and the per-action retry/repair loop of  *)
(*              JobApplicationAgent (agent.py)                             *)
(*   SpecCls    the caching classifier and its oracle client               *)
(*              (graph/field_classifier.py, graph/deepseek_llm.py)         *)
(***************************************************************************)
EXTENDS Integers, Sequences, FiniteSets, TLC

\* ------------------------------------------------------------------ bounds
\* Largest number of fields a page snapshot yields.
MaxFields == 10

\* Largest AgentConfig.max_retries a session is configured with.
MaxRetriesCfg == 2

\* Largest AgentConfig.max_cycles a session is configured with.
MaxCyclesCfg == 2

\* Largest number of actions in one plan.
MaxPlanActions == 2

\* Largest number of fields of a page in the runs checked for termination.
MaxFieldsLive == 6

\* ------------------------------------------------------------- graph state
VARIABLES
    node,              \* the graph node that runs next ("END" after a terminal node)
    field_queue,       \* ApplicationState.field_queue
    current_field,     \* ApplicationState.current_field (None when the queue is empty)
    completed_fields,  \* ApplicationState.completed_fields
    failed_fields,     \* ApplicationState.failed_fields
    skipped_fields,    \* ApplicationState.skipped_fields
    retry_count,       \* ApplicationState.retry_count
    fill_strategy,     \* ApplicationState.fill_strategy
    requires_human,    \* ApplicationState.requires_human
    form_completion,   \* ApplicationState.form_completion, a ratio [num, den]
    should_submit,     \* ApplicationState.should_submit
    final_state,       \* ApplicationState.final_state
    repair_strategy,   \* state["repair_strategy"].strategy_type written by the repair node
    total_fields,      \* number of fields page analysis observed
    auto_submit,       \* AgentConfig.auto_submit of the session
    dispatched,        \* history: fields for which execute_action was called
    gate_decision,     \* history: the route chosen by the last completion check
    form_submitted     \* state["form_submitted"] written by the submit node (FALSE: key absent)

graphVars == <<node, field_queue, current_field, completed_fields, failed_fields,
               skipped_fields, retry_count, fill_strategy, requires_human,
               form_completion, should_submit, final_state, repair_strategy,
               total_fields, auto_submit, dispatched, gate_decision,
               form_submitted>>

\* ------------------------------------------------------------- agent state
VARIABLES
    a_pc,               \* position in JobApplicationAgent.run
    max_retries,        \* AgentConfig.max_retries
    max_cycles,         \* AgentConfig.max_cycles
    cycle_count,        \* JobApplicationAgent.cycle_count
    plan,               \* the current ActionPlan: actions still to execute, includes_submit,
                        \* estimated_completion (percent)
    cycle_success,      \* _execute_action_cycle's cycle_success
    cur_action,         \* the action _execute_single_action is working on (0: none)
    attempt,            \* the loop variable of _execute_single_action
    action_result,      \* what _execute_single_action returned for cur_action (None: running)
    completed_actions,  \* JobApplicationAgent.completed_actions
    failed_actions,     \* JobApplicationAgent.failed_actions
    next_id,            \* actions planned so far (actions are numbered from 1)
    result,             \* the ExecutionResult run returns: [success, final_state]
    browser_closed,     \* number of browser.close() calls
    repairs,            \* history: llm.repair_action calls for cur_action
    applied,            \* history: repair suggestions adopted for cur_action
    plain_failures,     \* history: attempts on cur_action that ended success = False
    exhausted,          \* history: actions whose every attempt failed
    denied_at,          \* history: the attempt on cur_action that first raised an
                        \* access-denied error (NoAttempt: no such attempt)
    low_conf_at,        \* history: the attempt on cur_action that first got a repair
                        \* suggestion of confidence below 0.5 (NoAttempt: no such attempt)
    auth_result         \* history: what _check_auth_state returned (NoAuthResult: nothing)

agentVars == <<a_pc, max_retries, max_cycles, cycle_count, plan, cycle_success,
               cur_action, attempt, action_result, completed_actions, failed_actions, next_id,
               result, browser_closed, repairs, applied, plain_failures, exhausted,
               denied_at, low_conf_at, auth_result>>

\* -------------------------------------------------------- classifier state
VARIABLES
    c_pc,                  \* position of the classifier: "idle", "ready" or "oracle"
    use_cache,             \* AIFirstFieldClassifier.use_cache
    classification_cache,  \* AIFirstFieldClassifier.classification_cache: cache key -> verdict
    classification_stats,  \* AIFirstFieldClassifier.classification_stats
    c_call,                \* the classification call in progress
    http_attempt,          \* the loop variable of DeepSeekLLMService.classify_field
    calls_made,            \* classification calls started so far
    c_last,                \* history: how the last completed call ended
    seen,                  \* history: (element, context) -> the verdict last returned for
                           \* it and the cache epoch it was returned in
    epoch,                 \* history: number of times clear_cache emptied the cache
    c_answer,              \* history: the oracle answer the last completed call was given
    http_last,             \* history: what the call's most recent request came to
    cf_ended               \* history: classify_field calls that returned, and that raised

clsVars == <<c_pc, use_cache, classification_cache, classification_stats, c_call,
             http_attempt, calls_made, c_last, seen, epoch, c_answer,
             http_last, cf_ended>>

\* ---------------------------------------------------- fallback rule state
VARIABLES
    fb_rule,   \* the fallback that was applied last (None before the first)
    fb_in,     \* the indicators found in the prompt it was applied to
    fb_out     \* the classification it returned

fbVars == <<fb_rule, fb_in, fb_out>>

\* ------------------------------------------- enhanced workflow routing state
VARIABLES
    e_from,    \* the node whose conditional edge was evaluated last (None before the first)
    e_state,   \* the ApplicationState it was evaluated on
    e_route    \* the route name the routing function returned

enhVars == <<e_from, e_state, e_route>>

\* ------------------------------------------------- repair strategist state
VARIABLES
    rp_error,  \* the keywords found in last_error at the last analysis
    rp_retry,  \* the retry_count of the state it analysed
    rp_type,   \* the failure type _classify_failure gave (None before the first)
    rp_plan    \* how _get_repair_strategy ended: the plan returned, or the exception

repVars == <<rp_error, rp_retry, rp_type, rp_plan>>

\* ------------------------------------------------- browser agent state
VARIABLES
    ap_pc,              \* position in AIFirstRealBrowserAgent.apply_to_job
    live_mode,          \* apply_to_job's live_mode argument
    form_elements,      \* number of elements analyze_page_forms returned
    classified_fields,  \* apply_to_job's classified_fields: one classification per field
    fill_outcomes,      \* what the loop of _execute_real_form_filling did with each
                        \* field so far: "filled", "failed" or "left"
    ap_result           \* what apply_to_job returned (None while running)

applyVars == <<ap_pc, live_mode, form_elements, classified_fields, fill_outcomes, ap_result>>

\* ------------------------------------------- state of the measures and tests
VARIABLES
    p_fn,   \* the function that was evaluated last (None before the first)
    p_in,   \* the arguments it was evaluated on
    p_out   \* what it returned

pureVars == <<p_fn, p_in, p_out>>

\* ------------------------------------------- state of two classifier instances
VARIABLES
    s_class,  \* the class of the two instances
    s_cache,  \* cache slot -> classification_cache: cache key -> entry; an entry holds
              \* the classification and, as history, the pair and the session it was
              \* stored for
    s_last    \* the last classification call and what it returned

sessVars == <<s_class, s_cache, s_last>>

\* ------------------------------------------------ state of the graph agent
VARIABLES
    gr_pc,      \* position in GraphJobApplicationAgent.run
    gr_closed,  \* number of browser.close() calls
    gr_result   \* how run ended: the ExecutionResult returned, or the exception

runVars == <<gr_pc, gr_closed, gr_result>>

vars ==
    <<graphVars, agentVars, clsVars, fbVars, enhVars, repVars, applyVars, pureVars, sessVars,
      runVars>>

\* what a step of one component leaves alone
nonGraphVars ==
    <<agentVars, clsVars, fbVars, enhVars, repVars, applyVars, pureVars,
      sessVars, runVars>>

nonAgentVars ==
    <<graphVars, clsVars, fbVars, enhVars, repVars, applyVars, pureVars,
      sessVars, runVars>>

nonClsVars ==
    <<graphVars, agentVars, fbVars, enhVars, repVars, applyVars, pureVars,
      sessVars, runVars>>

nonFbVars ==
    <<graphVars, agentVars, clsVars, enhVars, repVars, applyVars, pureVars,
      sessVars, runVars>>

nonEnhVars ==
    <<graphVars, agentVars, clsVars, fbVars, repVars, applyVars, pureVars,
      sessVars, runVars>>

nonRepVars ==
    <<graphVars, agentVars, clsVars, fbVars, enhVars, applyVars, pureVars,
      sessVars, runVars>>

nonApplyVars ==
    <<graphVars, agentVars, clsVars, fbVars, enhVars, repVars, pureVars,
      sessVars, runVars>>

nonPureVars ==
    <<graphVars, agentVars, clsVars, fbVars, enhVars, repVars, applyVars,
      sessVars, runVars>>

nonSessVars ==
    <<graphVars, agentVars, clsVars, fbVars, enhVars, repVars, applyVars, pureVars,
      runVars>>

nonRunVars ==
    <<graphVars, agentVars, clsVars, fbVars, enhVars, repVars, applyVars, pureVars,
      sessVars>>

None == "None"

\* current_field is None: fields are numbered from 1
NoField == 0

\* models.graph_state.FillStrategy, by value
SIMPLE_MAPPING == "simple_mapping"
RAG_GENERATION == "rag_generation"
OPTION_SELECTION == "option_selection"
CONDITIONAL_LOGIC == "conditional"
SKIP_FIELD == "skip"

FillStrategy == {SIMPLE_MAPPING, RAG_GENERATION, OPTION_SELECTION, CONDITIONAL_LOGIC, SKIP_FIELD}

\* The strategies field analysis hands to routing: the closed menu of four
\* (conditional fields are outside the fill engine) or no strategy at all.
AnalysedStrategies == {SIMPLE_MAPPING, RAG_GENERATION, OPTION_SELECTION, SKIP_FIELD, None}

\* ---------------------------------------------------------------- helpers
Range(s) == {s[i] : i \in 1..Len(s)}

Tail0(s) == IF Len(s) = 0 THEN <<>> ELSE Tail(s)

Head0(s) == IF Len(s) = 0 THEN NoField ELSE Head(s)

\* a ratio num/den compared with a percentage, exactly
RatioGE(num, den, pct) == den > 0 /\ num * 100 >= pct * den

\* ---------------------------------------------------------------- routing
\* route_after_analysis with the skip branch sent past skip_field, so that the
\* skipped field stays at the head of the queue
route_after_analysis_SkipUnqueued(strategy) ==
    IF strategy = SIMPLE_MAPPING THEN "simple_fill"
    ELSE IF strategy = RAG_GENERATION THEN "rag_fill"
    ELSE IF strategy = OPTION_SELECTION THEN "option_fill"
    ELSE IF strategy = CONDITIONAL_LOGIC THEN "conditional_logic"
    ELSE IF strategy = SKIP_FIELD THEN "validation"
    ELSE "human_review"

\* route_after_analysis with the skip branch sent to a fill node
route_after_analysis_SkipFilled(strategy) ==
    IF strategy = SIMPLE_MAPPING THEN "simple_fill"
    ELSE IF strategy = RAG_GENERATION THEN "rag_fill"
    ELSE IF strategy = OPTION_SELECTION THEN "option_fill"
    ELSE IF strategy = CONDITIONAL_LOGIC THEN "conditional_logic"
    ELSE IF strategy = SKIP_FIELD THEN "simple_fill"
    ELSE "human_review"

\* routing.py route_after_analysis
route_after_analysis(strategy) ==
    IF strategy = SIMPLE_MAPPING THEN "simple_fill"
    ELSE IF strategy = RAG_GENERATION THEN "rag_fill"
    ELSE IF strategy = OPTION_SELECTION THEN "option_fill"
    ELSE IF strategy = CONDITIONAL_LOGIC THEN "conditional_logic"
    ELSE IF strategy = SKIP_FIELD THEN "skip_field"
    ELSE "human_review"

\* route_after_validation with the submit test ahead of the human-review test
route_after_validation_SubmitFirst(req_human, submit, cur, retries) ==
    IF submit THEN "submit_form"
    ELSE IF req_human THEN "human_review"
    ELSE IF cur = NoField THEN "completion_check"
    ELSE IF retries > 3 THEN "repair_strategy"
    ELSE "field_analysis"

\* routing.py route_after_validation
route_after_validation(req_human, submit, cur, retries) ==
    IF req_human THEN "human_review"
    ELSE IF submit THEN "submit_form"
    ELSE IF cur = NoField THEN "completion_check"
    ELSE IF retries > 3 THEN "repair_strategy"
    ELSE "field_analysis"

\* routing.py route_completion_check
route_completion_check(completion, queue) ==
    IF RatioGE(completion.num, completion.den, 90) THEN "submit_form"
    ELSE IF Len(queue) > 0 THEN "field_analysis"
    ELSE "human_review"

\* calculate_completion_percentage: the fraction of the fields first observed
\* that are now completed, every field weighted equally
calculate_completion_percentage(completed, total) ==
    IF total = 0 THEN [num |-> 0, den |-> 1] ELSE [num |-> Len(completed), den |-> total]

\* validation_node's should_submit
validation_should_submit(completion, failed) ==
    RatioGE(completion.num, completion.den, 90) /\ Len(failed) = 0

\* repair_strategies.py SmartRepairSystem._element_not_found_strategy
element_not_found_strategy(retries) ==
    IF retries = 0 THEN [strategy_type |-> "alternative_selectors", confidence |-> 80]
    ELSE IF retries = 1 THEN [strategy_type |-> "wait_and_retry", confidence |-> 60]
    ELSE [strategy_type |-> "skip_field", confidence |-> 100]

\* ------------------------------------------------------------------- Init
\* graph_agent.py GraphJobApplicationAgent.run: the initial ApplicationState
GraphState0(first) ==
    /\ node = first
    /\ field_queue = <<>>
    /\ current_field = NoField
    /\ completed_fields = <<>>
    /\ failed_fields = <<>>
    /\ skipped_fields = <<>>
    /\ retry_count = 0
    /\ fill_strategy = None
    /\ requires_human = FALSE
    /\ form_completion = [num |-> 0, den |-> 1]
    /\ should_submit = FALSE
    /\ final_state = "running"
    /\ repair_strategy = None
    /\ total_fields = 0
    /\ auto_submit \in BOOLEAN
    /\ dispatched = {}
    /\ gate_decision = None
    /\ form_submitted = FALSE

GraphInit == GraphState0("page_analysis")

\* the graph, idle while another component runs
GraphIdle == GraphState0("idle")

\* ------------------------------------------------------------------ nodes
\* nodes.py page_analysis_node: the snapshot yields n fields, already sorted
\* by priority; the edge page_analysis -> field_analysis is unconditional
PageAnalysis(most) ==
    /\ UNCHANGED nonGraphVars
    /\ UNCHANGED form_submitted
    /\ node = "page_analysis"
    /\ \E n \in 0..most :
        /\ field_queue' = [i \in 1..n |-> i]
        /\ current_field' = IF n > 0 THEN 1 ELSE NoField
        /\ total_fields' = n
    /\ node' = "field_analysis"
    /\ UNCHANGED <<completed_fields, failed_fields, skipped_fields, retry_count,
                   fill_strategy, requires_human, form_completion, should_submit,
                   final_state, repair_strategy, auto_submit, dispatched, gate_decision>>

\* nodes.py page_analysis_node
page_analysis_node == PageAnalysis(MaxFields)

\* page analysis of the shorter pages of the termination check
page_analysis_node_short == PageAnalysis(MaxFieldsLive)

\* nodes.py field_analysis_node, followed by route_after_analysis
field_analysis_node ==
    /\ UNCHANGED nonGraphVars
    /\ UNCHANGED form_submitted
    /\ node = "field_analysis"
    /\ IF current_field = NoField
       THEN /\ requires_human' = TRUE
            /\ fill_strategy' = fill_strategy
       ELSE /\ requires_human' = requires_human
            /\ \E s \in AnalysedStrategies : fill_strategy' = s
    /\ node' = route_after_analysis(fill_strategy')
    /\ UNCHANGED <<field_queue, current_field, completed_fields, failed_fields,
                   skipped_fields, retry_count, form_completion, should_submit,
                   final_state, repair_strategy, total_fields, auto_submit,
                   dispatched, gate_decision>>

\* FillUpdate with current_field left on the field just processed
FillUpdate_StaleCurrent(success) ==
    /\ dispatched' = dispatched \cup {current_field}
    /\ IF success
       THEN /\ completed_fields' = Append(completed_fields, current_field)
            /\ failed_fields' = failed_fields
            /\ retry_count' = 0
       ELSE /\ completed_fields' = completed_fields
            /\ failed_fields' = Append(failed_fields, current_field)
            /\ retry_count' = retry_count + 1
    /\ field_queue' = Tail0(field_queue)
    /\ current_field' = current_field
    /\ node' = "validation"
    /\ UNCHANGED <<skipped_fields, fill_strategy, requires_human, form_completion,
                   should_submit, final_state, repair_strategy, total_fields,
                   auto_submit, gate_decision>>

\* FillUpdate with a failed field also recorded as skipped
FillUpdate_FailedAlsoSkipped(success) ==
    /\ dispatched' = dispatched \cup {current_field}
    /\ IF success
       THEN /\ completed_fields' = Append(completed_fields, current_field)
            /\ failed_fields' = failed_fields
            /\ skipped_fields' = skipped_fields
            /\ retry_count' = 0
       ELSE /\ completed_fields' = completed_fields
            /\ failed_fields' = Append(failed_fields, current_field)
            /\ skipped_fields' = Append(skipped_fields, current_field)
            /\ retry_count' = retry_count + 1
    /\ field_queue' = Tail0(field_queue)
    /\ current_field' = Head0(Tail0(field_queue))
    /\ node' = "validation"
    /\ UNCHANGED <<fill_strategy, requires_human, form_completion,
                   should_submit, final_state, repair_strategy, total_fields,
                   auto_submit, gate_decision>>

\* The state update shared by the fill nodes (nodes.py simple_fill_node, lines
\* 68-84): bucket the field by the outcome of execute_action, advance the queue
FillUpdate(success) ==
    /\ dispatched' = dispatched \cup {current_field}
    /\ IF success
       THEN /\ completed_fields' = Append(completed_fields, current_field)
            /\ failed_fields' = failed_fields
            /\ retry_count' = 0
       ELSE /\ completed_fields' = completed_fields
            /\ failed_fields' = Append(failed_fields, current_field)
            /\ retry_count' = retry_count + 1
    /\ field_queue' = Tail0(field_queue)
    /\ current_field' = Head0(Tail0(field_queue))
    /\ node' = "validation"
    /\ UNCHANGED <<skipped_fields, fill_strategy, requires_human, form_completion,
                   should_submit, final_state, repair_strategy, total_fields,
                   auto_submit, gate_decision>>

\* nodes.py simple_fill_node
simple_fill_node ==
    /\ UNCHANGED nonGraphVars
    /\ UNCHANGED form_submitted
    /\ node = "simple_fill"
    /\ \E success \in BOOLEAN : FillUpdate(success)

\* nodes.py rag_fill_node (its state update is "similar to simple_fill")
rag_fill_node ==
    /\ UNCHANGED nonGraphVars
    /\ UNCHANGED form_submitted
    /\ node = "rag_fill"
    /\ \E success \in BOOLEAN : FillUpdate(success)

\* option_fill_node, registered by workflow.py
option_fill_node ==
    /\ UNCHANGED nonGraphVars
    /\ UNCHANGED form_submitted
    /\ node = "option_fill"
    /\ \E success \in BOOLEAN : FillUpdate(success)

\* skip_field_node, registered by workflow.py: no action is dispatched, the
\* field goes to skipped_fields and the queue advances
skip_field_node ==
    /\ UNCHANGED nonGraphVars
    /\ UNCHANGED form_submitted
    /\ node = "skip_field"
    /\ skipped_fields' = Append(skipped_fields, current_field)
    /\ field_queue' = Tail0(field_queue)
    /\ current_field' = Head0(Tail0(field_queue))
    /\ node' = "validation"
    /\ UNCHANGED <<completed_fields, failed_fields, retry_count, fill_strategy,
                   requires_human, form_completion, should_submit, final_state,
                   repair_strategy, total_fields, auto_submit, dispatched,
                   gate_decision>>

\* nodes.py validation_node, followed by route_after_validation
validation_node ==
    /\ UNCHANGED nonGraphVars
    /\ UNCHANGED form_submitted
    /\ node = "validation"
    /\ IF current_field = NoField
       THEN LET completion == calculate_completion_percentage(completed_fields, total_fields)
                submit == validation_should_submit(completion, failed_fields)
            IN  /\ form_completion' = completion
                /\ should_submit' = submit
                /\ final_state' = IF submit THEN "ready_for_submit" ELSE "incomplete"
       ELSE UNCHANGED <<form_completion, should_submit, final_state>>
    /\ node' = route_after_validation(requires_human, should_submit', current_field, retry_count)
    /\ UNCHANGED <<field_queue, current_field, completed_fields, failed_fields,
                   skipped_fields, retry_count, fill_strategy, requires_human,
                   repair_strategy, total_fields, auto_submit, dispatched,
                   gate_decision>>

\* repair_strategies.py SmartRepairSystem.analyze_failure_node, the node behind
\* "repair_strategy"; the edge repair_strategy -> field_analysis is unconditional
repair_strategy_node ==
    /\ UNCHANGED nonGraphVars
    /\ UNCHANGED form_submitted
    /\ node = "repair_strategy"
    /\ repair_strategy' = element_not_found_strategy(retry_count).strategy_type
    /\ node' = "field_analysis"
    /\ UNCHANGED <<field_queue, current_field, completed_fields, failed_fields,
                   skipped_fields, retry_count, fill_strategy, requires_human,
                   form_completion, should_submit, final_state, total_fields,
                   auto_submit, dispatched, gate_decision>>

\* enhanced_workflow.py completion_check_node (basic check), followed by
\* route_completion_check
completion_check_node ==
    /\ UNCHANGED nonGraphVars
    /\ UNCHANGED form_submitted
    /\ node = "completion_check"
    /\ final_state' = "incomplete"
    /\ gate_decision' = route_completion_check(form_completion, field_queue)
    /\ node' = gate_decision'
    /\ UNCHANGED <<field_queue, current_field, completed_fields, failed_fields,
                   skipped_fields, retry_count, fill_strategy, requires_human,
                   form_completion, should_submit, repair_strategy, total_fields,
                   auto_submit, dispatched>>

\* a human review node that also drops the fields still queued
human_review_node_ClearsQueue ==
    /\ UNCHANGED nonGraphVars
    /\ UNCHANGED form_submitted
    /\ node = "human_review"
    /\ final_state' = "paused_for_human"
    /\ requires_human' = TRUE
    /\ node' = "END"
    /\ field_queue' = <<>>
    /\ current_field' = NoField
    /\ UNCHANGED <<completed_fields, failed_fields,
                   skipped_fields, retry_count, fill_strategy, form_completion,
                   should_submit, repair_strategy, total_fields, auto_submit,
                   dispatched, gate_decision>>

\* nodes.py human_review_node; the edge human_review -> END
human_review_node ==
    /\ UNCHANGED nonGraphVars
    /\ UNCHANGED form_submitted
    /\ node = "human_review"
    /\ final_state' = "paused_for_human"
    /\ requires_human' = TRUE
    /\ node' = "END"
    /\ UNCHANGED <<field_queue, current_field, completed_fields, failed_fields,
                   skipped_fields, retry_count, fill_strategy, form_completion,
                   should_submit, repair_strategy, total_fields, auto_submit,
                   dispatched, gate_decision>>

\* enhanced_workflow.py submit_form_node; the edge submit_form -> END
submit_form_node ==
    /\ UNCHANGED nonGraphVars
    /\ node = "submit_form"
    /\ final_state' = "submitted"
    /\ form_submitted' = TRUE
    /\ node' = "END"
    /\ UNCHANGED <<field_queue, current_field, completed_fields, failed_fields,
                   skipped_fields, retry_count, fill_strategy, requires_human,
                   form_completion, should_submit, repair_strategy, total_fields,
                   auto_submit, dispatched, gate_decision>>

\* ------------------------------------------------------- graph properties
\* the fields page analysis observed that are no longer queued
Removed == (1..total_fields) \ Range(field_queue)

NoDuplicates(s) == Cardinality(Range(s)) = Len(s)

\* the submit thresholds on the buckets: completion >= 0.90, success rate >= 0.95
CompletionMet == RatioGE(Len(completed_fields), total_fields, 90)

SuccessRateMet ==
    RatioGE(Len(completed_fields), Len(completed_fields) + Len(failed_fields), 95)

C2_GateDecision ==
    gate_decision # None =>
        /\ (gate_decision = "submit_form") <=> (CompletionMet /\ SuccessRateMet /\ auto_submit)
        /\ gate_decision # "submit_form" =>
             gate_decision = IF Len(field_queue) > 0 THEN "field_analysis" ELSE "human_review"

\* C3: final_state = submitted only if both thresholds held when submit_form
\* was entered (the buckets do not change in submit_form)
C3_SubmittedOnlyIfThresholds ==
    (node = "submit_form" \/ final_state = "submitted") => (CompletionMet /\ SuccessRateMet)

\* C4: with auto-submit disabled the session never reaches submit_form
C4_NoSubmitWithoutAutoSubmit ==
    ~auto_submit => (node # "submit_form" /\ final_state # "submitted")

LastProcessed == IF current_field = NoField THEN total_fields ELSE current_field - 1

\* C13: out of validation, a field that failed and has retries remaining
\* (retry_count within the router's limit of 3) is followed by field_analysis
\* for that same field; an exhausted queue by completion_check; anything else
\* by field_analysis for the next queued field
C13_ValidationRouting ==
    [][ node = "validation" =>
          IF LastProcessed \in Range(failed_fields) /\ retry_count <= 3
          THEN node' = "field_analysis" /\ current_field' = LastProcessed
          ELSE IF current_field = NoField
          THEN node' = "completion_check"
          ELSE node' = "field_analysis" /\ current_field' = current_field ]_vars

C30_RetryCountPerField ==
    [][ (current_field' # current_field /\ current_field' # NoField)
            => retry_count' = 0 ]_vars

\* what a terminal node may write: final_state and its own flag
TerminalOnlyMarks ==
    /\ UNCHANGED <<field_queue, current_field, completed_fields,
                   failed_fields, skipped_fields, retry_count,
                   form_completion>>
    /\ UNCHANGED <<fill_strategy, should_submit, repair_strategy>>
    /\ IF node = "human_review"
       THEN /\ final_state' = "paused_for_human"
            /\ requires_human' = TRUE
            /\ UNCHANGED form_submitted
       ELSE /\ final_state' = "submitted"
            /\ form_submitted' = TRUE
            /\ UNCHANGED requires_human

\* C39: a step of the human_review node or of the submit_form node leaves
\* field_queue, current_field, completed_fields, failed_fields,
\* skipped_fields, retry_count and form_completion as they were; human review
\* writes only final_state and requires_human = TRUE, submit writes only
\* final_state and form_submitted = TRUE.
C39_TerminalNodesOnlyMark ==
    [][ (node \in {"human_review", "submit_form"}) => TerminalOnlyMarks ]_vars

\* C39 witness: human review has ended a run that still has a field queued
\* and has both completed and failed fields
C39_Witness ==
    /\ node = "END"
    /\ final_state = "paused_for_human"
    /\ requires_human
    /\ field_queue # <<>>
    /\ completed_fields # <<>>
    /\ failed_fields # <<>>

GraphNext ==
    \/ page_analysis_node
    \/ field_analysis_node
    \/ simple_fill_node
    \/ rag_fill_node
    \/ option_fill_node
    \/ skip_field_node
    \/ validation_node
    \/ repair_strategy_node
    \/ completion_check_node
    \/ human_review_node
    \/ submit_form_node

\* ------------------------------------------------------- failure kinds
\* Most keywords one error message holds.
MaxKeywords == 2

\* repair_strategies.py FailureType, by value
ELEMENT_NOT_FOUND == "element_not_found"
VALUE_REJECTED == "value_rejected"
TIMEOUT == "timeout"
VALIDATION_ERROR == "validation_error"
ACCESS_DENIED == "access_denied"
UNKNOWN == "unknown"

\* the substrings _classify_failure looks for in the lower-cased message
Keywords ==
    {"not found", "no such element", "timeout", "wait", "invalid", "rejected",
     "format", "access", "permission", "denied"}

\* an error message, as the set of keywords it contains
Errors == {e \in SUBSET Keywords : Cardinality(e) <= MaxKeywords}

\* classify_failure with the access group tested first
classify_failure_AccessFirst(error) ==
    IF error \cap {"access", "permission", "denied"} # {} THEN ACCESS_DENIED
    ELSE IF error \cap {"not found", "no such element"} # {} THEN ELEMENT_NOT_FOUND
    ELSE IF error \cap {"timeout", "wait"} # {} THEN TIMEOUT
    ELSE IF error \cap {"invalid", "rejected", "format"} # {} THEN VALUE_REJECTED
    ELSE UNKNOWN

\* repair_strategies.py SmartRepairSystem._classify_failure: the first group
\* with a keyword in the message decides
classify_failure(error) ==
    IF error \cap {"not found", "no such element"} # {} THEN ELEMENT_NOT_FOUND
    ELSE IF error \cap {"timeout", "wait"} # {} THEN TIMEOUT
    ELSE IF error \cap {"invalid", "rejected", "format"} # {} THEN VALUE_REJECTED
    ELSE IF error \cap {"access", "permission", "denied"} # {} THEN ACCESS_DENIED
    ELSE UNKNOWN

\* no attempt: attempts are numbered from 0, as range(max_retries + 1) does
NoAttempt == 0 - 1

\* no auth check made yet
NoAuthResult == [state |-> None, next_action |-> None]

\* what llm.classify_auth hands back: a state and a next action, by value, out
\* of the menus of prompts/auth_classifier.py
AuthResults ==
    { [state |-> "ready", next_action |-> "proceed"],
      [state |-> "login_required", next_action |-> "pause_for_human"],
      [state |-> "captcha_present", next_action |-> "skip_page"],
      [state |-> "blocked", next_action |-> "terminate"],
      [state |-> "unknown", next_action |-> "retry_later"] }

\* the test of the auth check with only a login page holding the session back
AuthBlocks_LoginOnly(verdict) == verdict.state = "login_required"

\* agent.py line 96: if auth_result.next_action != "proceed"
AuthBlocks(verdict) == verdict.next_action # "proceed"

\* agent.py JobApplicationAgent.__init__: counters at zero, both lists empty
AgentState0(pc, retries, cycles) ==
    /\ a_pc = pc
    /\ max_retries = retries
    /\ max_cycles = cycles
    /\ cycle_count = 0
    /\ plan = [actions |-> <<>>, includes_submit |-> FALSE, estimated_completion |-> 0]
    /\ cycle_success = FALSE
    /\ cur_action = 0
    /\ attempt = 0
    /\ action_result = None
    /\ completed_actions = <<>>
    /\ failed_actions = <<>>
    /\ next_id = 0
    /\ result = [success |-> FALSE, final_state |-> "running"]
    /\ browser_closed = 0
    /\ repairs = 0
    /\ applied = 0
    /\ plain_failures = 0
    /\ exhausted = {}
    /\ denied_at = NoAttempt
    /\ low_conf_at = NoAttempt
    /\ auth_result = NoAuthResult

\* the agent, idle while another component runs
AgentIdle == AgentState0("idle", 0, 0)

\* ------------------------------------------------------------------ agent
\* the confidences a RepairSuggestion carries, in percent
RepairConfidences == {30, 50, 80}

\* the estimated_completion values of a plan, in percent
PlanCompletions == {89, 90}

AgentInit ==
    \E retries \in 0..MaxRetriesCfg, cycles \in 0..MaxCyclesCfg :
        AgentState0("start", retries, cycles)

\* run's return paths: every one passes the finally clause, which closes the browser
Return(success, final) ==
    /\ result' = [success |-> success, final_state |-> final]
    /\ browser_closed' = browser_closed + 1
    /\ a_pc' = "done"

\* run, lines 147-157: the code after the loop takes the final screenshot and
\* returns form_filled; a screenshot that raises is caught by run's handler,
\* which returns error (lines 159-175)
FinalReturn ==
    \E screenshot_ok \in BOOLEAN :
        IF screenshot_ok THEN Return(TRUE, "form_filled") ELSE Return(FALSE, "error")

\* the while condition with the budget test off by one
BudgetLeft_OffByOne(count, cycles) == count <= cycles

\* agent.py line 107: while self.cycle_count < self.config.max_cycles
BudgetLeft(count, cycles) == count < cycles

\* agent.py line 246: a repair is requested only before the last attempt
RepairAllowed_OffByOne(att, retries) == att <= retries

RepairAllowed(att, retries) == att < retries

\* agent.py line 253: a suggestion is applied only above confidence 0.5
RepairApplied(confidence) == confidence > 50

\* agent.py lines 265-268: all attempts failed
\* GiveUp that records the action in neither list
GiveUp_Dropped(a) ==
    /\ failed_actions' = failed_actions
    /\ completed_actions' = completed_actions
    /\ action_result' = "False"

GiveUp_AsCompleted(a) ==
    /\ completed_actions' = Append(completed_actions, a)
    /\ failed_actions' = failed_actions
    /\ action_result' = "False"

GiveUp(a) ==
    /\ failed_actions' = Append(failed_actions, a)
    /\ completed_actions' = completed_actions
    /\ action_result' = "False"

\* agent.py _should_submit
ShouldSubmit(auto, pl, completed, failed) ==
    IF ~auto THEN FALSE
    ELSE IF ~pl.includes_submit THEN FALSE
    ELSE IF pl.estimated_completion < 90 THEN FALSE
    ELSE IF Len(completed) + Len(failed) = 0 THEN FALSE
    ELSE IF Len(completed) * 100 < 95 * (Len(completed) + Len(failed)) THEN FALSE
    ELSE TRUE

\* run, step 1: browser.start() and browser.goto(url)
AgentStart ==
    /\ UNCHANGED nonAgentVars
    /\ a_pc = "start"
    /\ \E ok \in BOOLEAN :
        IF ok
        THEN /\ a_pc' = "auth"
             /\ UNCHANGED <<result, browser_closed>>
        ELSE Return(FALSE, "error")
    /\ UNCHANGED auth_result
    /\ UNCHANGED <<max_retries, max_cycles, cycle_count, plan, cycle_success,
                   cur_action, attempt, action_result, completed_actions,
                   failed_actions, next_id, repairs, applied, plain_failures, exhausted,
                   denied_at, low_conf_at>>

\* run, step 2: _check_auth_state and the test of auth_result.next_action
AgentCheckAuth ==
    /\ UNCHANGED nonAgentVars
    /\ a_pc = "auth"
    /\ \/ \E verdict \in AuthResults :
            /\ auth_result' = verdict
            /\ IF AuthBlocks(verdict)
               THEN Return(FALSE, verdict.state)
               ELSE /\ a_pc' = "loop"
                    /\ UNCHANGED <<result, browser_closed>>
       \/ \* the snapshot, the classification or the screenshot raised
          /\ Return(FALSE, "error")
          /\ UNCHANGED auth_result
    /\ UNCHANGED <<max_retries, max_cycles, cycle_count, plan, cycle_success,
                   cur_action, attempt, action_result, completed_actions,
                   failed_actions, next_id, repairs, applied, plain_failures, exhausted,
                   denied_at, low_conf_at>>

\* run, step 3: one pass of the while loop up to the plan (lines 107-124)
AgentPlanCycle ==
    /\ UNCHANGED nonAgentVars
    /\ a_pc = "loop"
    /\ BudgetLeft(cycle_count, max_cycles)
    /\ cycle_count' = cycle_count + 1
    /\ \E n \in 0..MaxPlanActions, sub \in BOOLEAN, est \in PlanCompletions, ok \in BOOLEAN :
        IF ~ok
        THEN /\ Return(FALSE, "error")
             /\ UNCHANGED <<plan, cycle_success, cur_action, attempt, action_result,
                            next_id, repairs, applied, plain_failures, denied_at,
                            low_conf_at>>
        ELSE /\ plan' = [actions |-> [i \in 1..n |-> next_id + i],
                         includes_submit |-> sub, estimated_completion |-> est]
             /\ next_id' = next_id + n
             /\ IF n = 0
                THEN /\ FinalReturn
                     /\ UNCHANGED <<cycle_success, cur_action, attempt, action_result,
                                    repairs, applied, plain_failures, denied_at,
                                    low_conf_at>>
                ELSE /\ a_pc' = "exec"
                     /\ cycle_success' = FALSE
                     /\ cur_action' = next_id + 1
                     /\ attempt' = 0
                     /\ action_result' = None
                     /\ repairs' = 0
                     /\ applied' = 0
                     /\ plain_failures' = 0
                     /\ denied_at' = NoAttempt
                     /\ low_conf_at' = NoAttempt
                     /\ UNCHANGED <<result, browser_closed>>
    /\ UNCHANGED auth_result
    /\ UNCHANGED <<max_retries, max_cycles, completed_actions, failed_actions, exhausted>>

\* run: the while condition fails, the cycle budget is used up (lines 147-157
\* after the test of line 107)
AgentBudgetExhausted ==
    /\ UNCHANGED nonAgentVars
    /\ a_pc = "loop"
    /\ ~BudgetLeft(cycle_count, max_cycles)
    /\ FinalReturn
    /\ UNCHANGED auth_result
    /\ UNCHANGED <<max_retries, max_cycles, cycle_count, plan, cycle_success,
                   cur_action, attempt, action_result, completed_actions,
                   failed_actions, next_id, repairs, applied, plain_failures, exhausted,
                   denied_at, low_conf_at>>

\* the handler of an attempt lets the exception of the last attempt through
ExceptionEscapes_LastAttempt(att, retries) == att >= retries

\* agent.py lines 259-263: "except Exception" around the body of an attempt
\* catches whatever the attempt raises, at every attempt
ExceptionEscapes(att, retries) == FALSE

\* _execute_single_action: one pass of "for attempt in range(max_retries + 1)".
\* outcome "ok": the action was executed and counts as done (verified, close
\* enough, or not verifiable); "fail": execute_action returned False or the
\* verification failed; "raise": the attempt raised an exception whose message
\* holds the keywords of error
AgentAttempt ==
    /\ UNCHANGED nonAgentVars
    /\ a_pc = "exec"
    /\ action_result = None
    /\ attempt <= max_retries
    /\ \E outcome \in {"ok", "fail", "raise"}, confidence \in RepairConfidences,
          error \in Errors :
        IF outcome = "ok"
        THEN /\ completed_actions' = Append(completed_actions, cur_action)
             /\ action_result' = "True"
             /\ a_pc' = "pause"
             /\ UNCHANGED <<failed_actions, attempt, repairs, applied, plain_failures,
                            exhausted, denied_at, low_conf_at, result, browser_closed>>
        ELSE IF outcome = "raise" /\ ExceptionEscapes(attempt, max_retries)
        THEN \* the exception leaves _execute_single_action and reaches run's handler
             /\ Return(FALSE, "error")
             /\ UNCHANGED <<completed_actions, failed_actions, action_result, attempt,
                            repairs, applied, plain_failures, exhausted, denied_at,
                            low_conf_at>>
        ELSE /\ plain_failures' = IF outcome = "fail" THEN plain_failures + 1 ELSE plain_failures
             /\ repairs' = IF outcome = "fail" /\ RepairAllowed(attempt, max_retries)
                           THEN repairs + 1 ELSE repairs
             /\ applied' = IF outcome = "fail" /\ RepairAllowed(attempt, max_retries)
                              /\ RepairApplied(confidence)
                           THEN applied + 1 ELSE applied
             /\ denied_at' = IF outcome = "raise" /\ classify_failure(error) = ACCESS_DENIED
                                 /\ denied_at = NoAttempt
                              THEN attempt ELSE denied_at
             /\ low_conf_at' = IF outcome = "fail" /\ RepairAllowed(attempt, max_retries)
                                   /\ confidence < 50 /\ low_conf_at = NoAttempt
                                THEN attempt ELSE low_conf_at
             /\ IF attempt < max_retries
                THEN \* "continue", or fall through to the next pass
                     /\ attempt' = attempt + 1
                     /\ a_pc' = "exec"
                     /\ UNCHANGED <<completed_actions, failed_actions, action_result, exhausted>>
                ELSE \* the loop is over
                     /\ GiveUp(cur_action)
                     /\ exhausted' = exhausted \cup {cur_action}
                     /\ a_pc' = "pause"
                     /\ UNCHANGED attempt
             /\ UNCHANGED <<result, browser_closed>>
    /\ UNCHANGED auth_result
    /\ UNCHANGED <<max_retries, max_cycles, cycle_count, plan, cycle_success,
                   cur_action, next_id>>

\* _execute_action_cycle: the pause after an action, then the next action
AgentNextAction ==
    /\ UNCHANGED nonAgentVars
    /\ a_pc = "pause"
    /\ cycle_success' = (cycle_success \/ action_result = "True")
    /\ IF cur_action < next_id
       THEN /\ cur_action' = cur_action + 1
            /\ attempt' = 0
            /\ action_result' = None
            /\ repairs' = 0
            /\ applied' = 0
            /\ plain_failures' = 0
            /\ denied_at' = NoAttempt
            /\ low_conf_at' = NoAttempt
            /\ a_pc' = "exec"
       ELSE /\ a_pc' = "cycle_end"
            /\ UNCHANGED <<cur_action, attempt, action_result, repairs, applied,
                           plain_failures, denied_at, low_conf_at>>
    /\ UNCHANGED auth_result
    /\ UNCHANGED <<max_retries, max_cycles, cycle_count, plan, completed_actions,
                   failed_actions, next_id, result, browser_closed, exhausted>>

\* run, lines 129-145: the submit decision after a cycle
AgentCycleEnd ==
    /\ UNCHANGED nonAgentVars
    /\ a_pc = "cycle_end"
    /\ IF ShouldSubmit(auto_submit, plan, completed_actions, failed_actions)
       THEN \E submit \in {"submitted", "not_submitted", "raise"} :
              IF submit = "submitted"
              THEN Return(TRUE, "submitted")
              ELSE IF submit = "raise"
              THEN \* _handle_submit or the screenshot raised: run's handler
                   Return(FALSE, "error")
              ELSE /\ a_pc' = "loop"
                   /\ UNCHANGED <<result, browser_closed>>
       ELSE /\ a_pc' = "loop"
            /\ UNCHANGED <<result, browser_closed>>
    /\ UNCHANGED auth_result
    /\ UNCHANGED <<max_retries, max_cycles, cycle_count, plan, cycle_success,
                   cur_action, attempt, action_result, completed_actions,
                   failed_actions, next_id, repairs, applied, plain_failures, exhausted,
                   denied_at, low_conf_at>>

\* ------------------------------------------------------- agent properties
\* C5: no action receives more than max_retries repair requests or more than
\* max_retries + 1 attempts; when every attempt returned failure exactly
\* max_retries repairs were requested, and a concluded action is not attempted again
C5_RetryBound ==
    /\ repairs <= max_retries
    /\ attempt <= max_retries
    /\ plain_failures <= max_retries + 1
    /\ (action_result = "False" /\ plain_failures = max_retries + 1) => repairs = max_retries
    /\ cur_action \in exhausted => (action_result = "False" /\ a_pc # "exec")

C5_Witness ==
    /\ max_retries = 2
    /\ action_result = "False"
    /\ plain_failures = 3
    /\ repairs = 2

C17_AccessDeniedEscalates ==
    denied_at # NoAttempt
        => /\ attempt = denied_at
           /\ a_pc = "done" => result.final_state = "human_review"

\* C18: a repair suggestion of confidence below 0.5 is not applied, no further
\* attempt is made on the action, and the action does not end in failed_actions
C18_LowConfidenceSkips ==
    /\ [](low_conf_at # NoAttempt
            => /\ attempt = low_conf_at
               /\ cur_action \notin Range(failed_actions))
    /\ [][ (low_conf_at = NoAttempt /\ low_conf_at' # NoAttempt) => applied' = applied ]_vars

Occurrences(a) ==
    Cardinality({i \in 1..Len(completed_actions) : completed_actions[i] = a})
        + Cardinality({i \in 1..Len(failed_actions) : failed_actions[i] = a})

\* _execute_single_action was called for the action and has returned
Handled(a) == a < cur_action \/ (a = cur_action /\ action_result # None)

C21_UnmetGateEndsInHumanReview ==
    [][ (a_pc = "loop" /\ ~BudgetLeft(cycle_count, max_cycles))
            => /\ result'.final_state = "paused_for_human"
               /\ ~result'.success ]_vars

AgentNext ==
    \/ AgentStart
    \/ AgentCheckAuth
    \/ AgentPlanCycle
    \/ AgentBudgetExhausted
    \/ AgentAttempt
    \/ AgentNextAction
    \/ AgentCycleEnd

\* ------------------------------------------------------------- classifier
\* Largest number of classification calls made on one classifier instance.
MaxCalls == 2

\* deepseek_llm.py DeepSeekLLMService.__init__: self.max_retries
ServiceMaxRetries == 3

\* field_classifier.py FieldComplexity, by value
FieldComplexity == {"trivial", "simple", "medium", "complex", "expert"}

\* the fields of the AIFieldClassification dataclass; the first four have no default
DataclassFields ==
    {"fill_strategy", "complexity", "confidence", "reasoning", "mapped_to", "requires_rag",
     "estimated_time", "max_length", "question_extracted", "priority"}

RequiredFields == {"fill_strategy", "complexity", "confidence", "reasoning"}

\* an AIFieldClassification, confidence in percent
Verdict(strategy, complexity, confidence, reasoning, mapped_to) ==
    [fill_strategy |-> strategy, complexity |-> complexity, confidence |-> confidence,
     reasoning |-> reasoning, mapped_to |-> mapped_to]

NoVerdict == Verdict(None, None, 0, None, None)

\* a decoded JSON value: its kind, the keys it carries and the values under them
Answer(keys, strategy, complexity, confidence, reasoning, mapped_to) ==
    [kind |-> "object", keys |-> keys, fill_strategy |-> strategy, complexity |-> complexity,
     confidence |-> confidence, reasoning |-> reasoning, mapped_to |-> mapped_to]

\* the keys of the classification dictionaries the services build
FullKeys ==
    {"fill_strategy", "complexity", "confidence", "reasoning", "mapped_to", "requires_rag",
     "estimated_time", "priority"}

\* What the oracle may answer: well-formed objects (the third uses the prompt's
\* menu word for skipping), an object without "reasoning", an object with a key
\* the dataclass does not have, and a JSON array.
OracleAnswers ==
    { Answer(FullKeys, "simple_mapping", "trivial", 95, "oracle", "personal.first_name"),
      Answer(FullKeys, "rag_generation", "complex", 90, "oracle", None),
      Answer(FullKeys, "skip_field", "expert", 96, "oracle", None),
      Answer(FullKeys \ {"reasoning"}, "simple_mapping", "simple", 85, None, None),
      Answer(FullKeys \cup {"field_type"}, "simple_mapping", "simple", 85, "oracle", None),
      [Answer({}, None, None, 0, None, None) EXCEPT !.kind = "array"] }

\* the indicator groups deepseek_llm.py's fallback looks for in the lower-cased prompt
DSIndicators == {"first name", "email", "tag=textarea", "cover letter", "assessment"}

\* the indicator groups complete_ai_browser_agent.py's fallback looks for
BrowserIndicators ==
    {"name", "email", "phone", "gpa", "university", "type: input[radio]",
     "type: input[checkbox]", "required: true"}

\* how many of the words one prompt holds at most
MaxPromptWords == 3

\* the words a lower-cased prompt may hold: both services receive prompts built
\* from any field, so each meets the words the other one looks for
PromptWords == DSIndicators \cup BrowserIndicators

\* a prompt is the set of those words it contains; "first name" contains "name"
Prompts ==
    {p \in SUBSET PromptWords :
        /\ Cardinality(p) <= MaxPromptWords
        /\ "first name" \in p => "name" \in p}

get_fallback_classification_Overconfident(prompt_lower) ==
    Answer(FullKeys, "simple_mapping", "trivial", 85, "API failed", "personal.email")

\* deepseek_llm.py DeepSeekLLMService._get_fallback_classification
get_fallback_classification(prompt_lower) ==
    IF "first name" \in prompt_lower
    THEN Answer(FullKeys, "simple_mapping", "trivial", 70, "API failed", "personal.first_name")
    ELSE IF "email" \in prompt_lower
    THEN Answer(FullKeys, "simple_mapping", "trivial", 75, "API failed", "personal.email")
    ELSE IF "tag=textarea" \in prompt_lower /\ "cover letter" \in prompt_lower
    THEN Answer(FullKeys, "rag_generation", "complex", 65, "API failed", None)
    ELSE IF "assessment" \in prompt_lower
    THEN Answer(FullKeys, "skip_field", "expert", 80, "API failed", None)
    ELSE Answer(FullKeys, "simple_mapping", "medium", 40, "API failed", None)

\* the keys of the dictionaries complete_ai_browser_agent.py's fallback builds
BrowserKeys == {"strategy", "confidence", "value", "reasoning"}

\* complete_ai_browser_agent.py DeepSeekLLMService._get_fallback_classification
browser_get_fallback_classification(prompt_lower) ==
    IF "name" \in prompt_lower
    THEN Answer(BrowserKeys, "simple_mapping", None, 80, "API failed", "Timothy")
    ELSE IF "email" \in prompt_lower
    THEN Answer(BrowserKeys, "simple_mapping", None, 80, "API failed", "tlweave2@asu.edu")
    ELSE IF "phone" \in prompt_lower
    THEN Answer(BrowserKeys, "simple_mapping", None, 80, "API failed", "209-261-5308")
    ELSE IF "gpa" \in prompt_lower
    THEN Answer(BrowserKeys, "option_selection", None, 80, "API failed", "3.83")
    ELSE IF "university" \in prompt_lower
    THEN Answer(BrowserKeys, "option_selection", None, 80, "API failed",
                "Arizona State University")
    ELSE IF "type: input[radio]" \in prompt_lower
    THEN Answer(BrowserKeys \ {"value"}, "option_selection", None, 60, "API failed", None)
    ELSE IF "type: input[checkbox]" \in prompt_lower
    THEN Answer(BrowserKeys \ {"value"}, "option_selection", None, 60, "API failed", None)
    ELSE IF "required: true" \in prompt_lower
    THEN Answer(BrowserKeys \ {"value"}, "simple_mapping", None, 50, "API failed", None)
    ELSE Answer(BrowserKeys \ {"value"}, "skip_field", None, 40, "API failed", None)

\* how a conversion of an oracle answer ends
Returned(path, verdict) == [outcome |-> "returned", path |-> path, verdict |-> verdict]

Raised(error) == [outcome |-> "raised", path |-> error, verdict |-> NoVerdict]

\* field_classifier.py AIFirstFieldClassifier._parse_ai_response: .get on a value
\* that is no dictionary raises AttributeError, which the handler does not catch;
\* a missing key (KeyError) and a value outside the enums (ValueError) give the
\* fallback classification
parse_ai_response(ai_response) ==
    IF ai_response.kind # "object"
    THEN Raised("AttributeError")
    ELSE IF /\ RequiredFields \subseteq ai_response.keys
            /\ ai_response.fill_strategy \in FillStrategy
            /\ ai_response.complexity \in FieldComplexity
    THEN Returned("oracle",
                  Verdict(ai_response.fill_strategy, ai_response.complexity,
                          ai_response.confidence, ai_response.reasoning,
                          ai_response.mapped_to))
    ELSE Returned("parse_fallback",
                  Verdict(SIMPLE_MAPPING, "medium", 30, "Failed to parse AI response", None))

\* deepseek_llm.py AIFieldClassification(**classification_result): a value that is
\* no mapping, a missing required field and an unexpected keyword are TypeErrors;
\* the values are stored as given
AIFieldClassification(classification_result) ==
    IF /\ classification_result.kind = "object"
       /\ RequiredFields \subseteq classification_result.keys
       /\ classification_result.keys \subseteq DataclassFields
    THEN Returned("oracle",
                  Verdict(classification_result.fill_strategy,
                          classification_result.complexity,
                          classification_result.confidence,
                          classification_result.reasoning,
                          classification_result.mapped_to))
    ELSE Raised("TypeError")

\* ActionableElement and page context of the form under classification
Selectors == {"#first-name", "#email"}

BaseElement ==
    [selector |-> "#first-name", tag |-> "input", type |-> "text",
     placeholder |-> "First Name", text |-> "", required |-> TRUE, attributes |-> "{}"]

BaseContext ==
    [title |-> "Apply", url |-> "https://jobs.example/1",
     nearby_text |-> [s \in Selectors |-> IF s = "#first-name" THEN "First Name" ELSE ""]]

\* the base pair and pairs that differ from it in one component: the selector,
\* the tag, the page URL
Inputs ==
    { <<BaseElement, BaseContext>>,
      <<[BaseElement EXCEPT !.selector = "#email", !.placeholder = "Email"], BaseContext>>,
      <<[BaseElement EXCEPT !.tag = "textarea"], BaseContext>>,
      <<BaseElement, [BaseContext EXCEPT !.url = "https://jobs.example/2"]>> }

\* the indicator groups a piece of page text puts into the prompt
IndicatorsIn(text) ==
    IF text \in {"First Name", "Given name"} THEN {"first name"}
    ELSE IF text = "Email" THEN {"email"}
    ELSE {}

\* field_classifier.py AIFirstFieldClassifier._build_ai_classification_prompt, by the
\* indicator groups of the lower-cased prompt: the fixed text names "first name",
\* "email", "cover letters" and "assessments"; the tag is written as "Tag: <tag>"
build_ai_classification_prompt(element, page_context) ==
    {"first name", "email", "cover letter", "assessment"}
        \cup IndicatorsIn(element.placeholder)
        \cup IndicatorsIn(element.text)
        \cup IndicatorsIn(page_context.nearby_text[element.selector])

\* field_classifier.py AIFirstFieldClassifier._generate_cache_key: the digest of
\* the nine components, in the order of the dictionary
generate_cache_key(element, page_context) ==
    <<element.selector, element.tag, element.type, element.placeholder, element.text,
      element.required, element.attributes, page_context.title,
      page_context.nearby_text[element.selector]>>

\* dictionary update d[k] = v
Put(d, k, v) == [x \in DOMAIN d \cup {k} |-> IF x = k THEN v ELSE d[x]]

\* dictionary read d.get(k, default)
Get(d, k, default) == IF k \in DOMAIN d THEN d[k] ELSE default

EmptyDict == [x \in {} |-> None]

CacheStore_Dropped(cache, cache_key, classification) == cache

\* field_classifier.py classify_field: self.classification_cache[cache_key] = classification
CacheStore(cache, cache_key, classification) == Put(cache, cache_key, classification)

\* field_classifier.py AIFirstFieldClassifier._update_stats
update_stats(stats, classification) ==
    [stats EXCEPT
        !.total_classified = @ + 1,
        !.strategies = Put(@, classification.fill_strategy,
                           Get(@, classification.fill_strategy, 0) + 1),
        !.complexities = Put(@, classification.complexity,
                             Get(@, classification.complexity, 0) + 1)]

\* no oracle answer reached the classifier
NoAnswer == Answer({}, None, None, 0, None, None)

NoCall ==
    [entry |-> None, element |-> BaseElement, page_context |-> BaseContext, prompt |-> {},
     repeat |-> FALSE, prev_verdict |-> NoVerdict, same_epoch |-> FALSE]

NoLast ==
    [entry |-> None, outcome |-> None, path |-> None, verdict |-> NoVerdict,
     oracle_used |-> FALSE, repeat |-> FALSE, prev_verdict |-> NoVerdict,
     same_epoch |-> FALSE]

\* field_classifier.py AIFirstFieldClassifier.__init__
ClsState0(pc, cache_on) ==
    /\ c_pc = pc
    /\ use_cache = cache_on
    /\ classification_cache = EmptyDict
    /\ classification_stats =
           [total_classified |-> 0, ai_calls |-> 0, cache_hits |-> 0,
            strategies |-> EmptyDict, complexities |-> EmptyDict]
    /\ c_call = NoCall
    /\ http_attempt = 0
    /\ calls_made = 0
    /\ c_last = NoLast
    /\ seen = EmptyDict
    /\ epoch = 0
    /\ c_answer = NoAnswer
    /\ http_last = None
    /\ cf_ended = [returned |-> 0, raised |-> 0]

\* the classifier, idle while another component runs
ClsIdle == ClsState0("idle", TRUE)

ClsInit == \E cache_on \in BOOLEAN : ClsState0("ready", cache_on)

\* no fallback applied yet
FbState0 ==
    /\ fb_rule = None
    /\ fb_in = {}
    /\ fb_out = NoVerdict

\* the call in progress ends: the caller receives a verdict or an exception
Finish(call, outcome, path, verdict, oracle_used) ==
    /\ c_last' = [entry |-> call.entry, outcome |-> outcome, path |-> path,
                  verdict |-> verdict, oracle_used |-> oracle_used,
                  repeat |-> call.repeat, prev_verdict |-> call.prev_verdict,
                  same_epoch |-> call.same_epoch]
    /\ seen' = IF call.entry = "classify_field" /\ outcome = "returned"
               THEN Put(seen, <<call.element, call.page_context>>,
                        [verdict |-> verdict, epoch |-> epoch])
               ELSE seen
    /\ cf_ended' = IF call.entry # "classify_field" THEN cf_ended
                   ELSE IF outcome = "returned"
                   THEN [cf_ended EXCEPT !.returned = @ + 1]
                   ELSE [cf_ended EXCEPT !.raised = @ + 1]
    /\ c_pc' = "ready"
    /\ c_call' = NoCall
    /\ http_attempt' = 0

\* field_classifier.py AIFirstFieldClassifier.classify_field up to the oracle call:
\* a cache hit returns the stored classification at once
classify_field ==
    /\ c_pc = "ready"
    /\ calls_made < MaxCalls
    /\ calls_made' = calls_made + 1
    /\ \E inp \in Inputs :
        LET element == inp[1]
            page_context == inp[2]
            cache_key == generate_cache_key(element, page_context)
            rep == inp \in DOMAIN seen
            call == [entry |-> "classify_field", element |-> element,
                     page_context |-> page_context,
                     prompt |-> build_ai_classification_prompt(element, page_context),
                     repeat |-> rep,
                     prev_verdict |-> IF rep THEN seen[inp].verdict ELSE NoVerdict,
                     same_epoch |-> IF rep THEN seen[inp].epoch = epoch ELSE FALSE]
        IN  IF use_cache /\ cache_key \in DOMAIN classification_cache
            THEN /\ classification_stats' =
                        [classification_stats EXCEPT !.cache_hits = @ + 1]
                 /\ Finish(call, "returned", "cache", classification_cache[cache_key], FALSE)
                 /\ c_answer' = NoAnswer
                 /\ UNCHANGED classification_cache
            ELSE /\ c_pc' = "oracle"
                 /\ c_call' = call
                 /\ http_attempt' = 0
                 /\ UNCHANGED <<classification_cache, classification_stats, c_last, seen,
                                c_answer, cf_ended>>
    /\ http_last' = None
    /\ UNCHANGED <<use_cache, epoch>>
    /\ UNCHANGED nonClsVars

\* the prompts of DeepSeekFieldClassifier.classify, by the indicator groups the
\* field's name, type and placeholder put into them: a first-name field, an
\* e-mail field, a cover-letter textarea, a coding test, any other field
ClassifyPrompts ==
    { {"first name"}, {"email"}, {"tag=textarea", "cover letter"}, {"assessment"}, {} }

\* deepseek_llm.py DeepSeekFieldClassifier.classify up to the oracle call
classify ==
    /\ c_pc = "ready"
    /\ calls_made < MaxCalls
    /\ calls_made' = calls_made + 1
    /\ \E prompt \in ClassifyPrompts :
        c_call' = [NoCall EXCEPT !.entry = "classify", !.prompt = prompt]
    /\ c_pc' = "oracle"
    /\ http_attempt' = 0
    /\ http_last' = None
    /\ UNCHANGED <<use_cache, classification_cache, classification_stats, c_last, seen, epoch,
                   c_answer, cf_ended>>
    /\ UNCHANGED nonClsVars

\* the oracle client returned classification_data to the classifier: the rest of
\* classify_field (count the call, parse, cache, statistics) or of classify
\* (build the dataclass)
OracleReturns(classification_data, source) ==
    /\ c_answer' = classification_data
    /\ IF c_call.entry = "classify_field"
       THEN LET parsed == parse_ai_response(classification_data)
                counted == [classification_stats EXCEPT !.ai_calls = @ + 1]
                cache_key == generate_cache_key(c_call.element, c_call.page_context)
            IN  IF parsed.outcome = "raised"
                THEN /\ classification_stats' = counted
                     /\ UNCHANGED classification_cache
                     /\ Finish(c_call, "raised", parsed.path, NoVerdict, TRUE)
                ELSE /\ classification_cache' =
                            IF use_cache
                            THEN CacheStore(classification_cache, cache_key, parsed.verdict)
                            ELSE classification_cache
                     /\ classification_stats' = update_stats(counted, parsed.verdict)
                     /\ Finish(c_call, "returned",
                               IF parsed.path = "oracle" THEN source ELSE parsed.path,
                               parsed.verdict, TRUE)
       ELSE LET built == AIFieldClassification(classification_data)
            IN  /\ UNCHANGED <<classification_cache, classification_stats>>
                /\ Finish(c_call, built.outcome,
                          IF built.path = "oracle" THEN source ELSE built.path,
                          built.verdict, TRUE)

\* an exception leaves the oracle client: neither caller catches it
OracleRaises(error) ==
    /\ c_answer' = NoAnswer
    /\ UNCHANGED <<classification_cache, classification_stats>>
    /\ Finish(c_call, "raised", error, NoVerdict, TRUE)

\* the request loop is left without an answer: the fallback classification
OracleGivesUp ==
    OracleReturns(get_fallback_classification(c_call.prompt), "api_fallback")

\* the request loop goes on to its next iteration, if it has one
NextAttempt ==
    IF http_attempt + 1 < ServiceMaxRetries
    THEN /\ http_attempt' = http_attempt + 1
         /\ UNCHANGED <<c_pc, c_call, c_last, seen, classification_cache,
                        classification_stats, c_answer, cf_ended>>
    ELSE OracleGivesUp

\* what one request can come to
HttpOutcomes ==
    {"200 json", "200 fragment", "200 garbage", "200 without choices", "429", "5xx", "4xx",
     "transport error"}

\* deepseek_llm.py DeepSeekLLMService.classify_field: one iteration of the request
\* loop.  A 200 body decodes to the oracle's answer, or holds a JSON fragment that
\* _extract_json_from_response finds (always an object), or neither (the loop goes
\* on); a 200 envelope without "choices" raises KeyError; 429 and 5xx continue;
\* any other status breaks; a transport error or timeout continues while
\* attempt < max_retries - 1 and breaks otherwise.
post_request ==
    /\ c_pc = "oracle"
    /\ \E outcome \in HttpOutcomes :
        /\ http_last' = outcome
        /\ \/ /\ outcome = "200 json"
              /\ \E a \in OracleAnswers : OracleReturns(a, "oracle")
           \/ /\ outcome = "200 fragment"
              /\ \E a \in {x \in OracleAnswers : x.kind = "object"} : OracleReturns(a, "oracle")
           \/ /\ outcome \in {"200 garbage", "429", "5xx"}
              /\ NextAttempt
           \/ /\ outcome = "200 without choices"
              /\ OracleRaises("KeyError")
           \/ /\ outcome = "4xx"
              /\ OracleGivesUp
           \/ /\ outcome = "transport error"
              /\ IF http_attempt < ServiceMaxRetries - 1 THEN NextAttempt ELSE OracleGivesUp
    /\ UNCHANGED <<use_cache, calls_made, epoch>>
    /\ UNCHANGED nonClsVars

\* field_classifier.py AIFirstFieldClassifier.clear_cache: a cache that is None or
\* empty is left as it is
clear_cache ==
    /\ c_pc = "ready"
    /\ IF classification_cache # EmptyDict
       THEN /\ classification_cache' = EmptyDict
            /\ epoch' = epoch + 1
       ELSE UNCHANGED <<classification_cache, epoch>>
    /\ UNCHANGED <<c_pc, use_cache, classification_stats, c_call, http_attempt, calls_made,
                   c_last, seen, c_answer, http_last, cf_ended>>
    /\ UNCHANGED nonClsVars

\* C7: a second classify_field call with the same (element, context) returns
\* the verdict the first call returned, field for field, and makes no oracle call
C7_SecondCallSameVerdict ==
    (c_last.entry = "classify_field" /\ c_last.repeat)
        => /\ c_last.outcome = "returned"
           /\ c_last.verdict = c_last.prev_verdict
           /\ ~c_last.oracle_used

\* C7 for a classifier built with use_cache = True whose cache was not cleared
\* between the two calls: the second call returns the verdict the first call
\* returned and makes no oracle call
C7_CachedSecondCallSameVerdict ==
    (c_last.entry = "classify_field" /\ c_last.repeat /\ use_cache /\ c_last.same_epoch)
        => /\ c_last.outcome = "returned"
           /\ c_last.path = "cache"
           /\ c_last.verdict = c_last.prev_verdict
           /\ ~c_last.oracle_used

C7_Witness ==
    /\ use_cache
    /\ c_last.entry = "classify_field"
    /\ c_last.repeat
    /\ c_last.same_epoch
    /\ c_last.path = "cache"
    /\ c_last.verdict = c_last.prev_verdict
    /\ c_last.verdict.fill_strategy = RAG_GENERATION
    /\ classification_stats.cache_hits = 1
    /\ classification_stats.ai_calls = 1

\* C8: no classification call ends with an exception propagating to its caller
C8_ClassifyNeverRaises ==
    c_last.outcome # "raised"

\* C11: when the oracle answers "skip_field" / "expert" for a field (its answer
\* for an assessment field), classify_field returns fill_strategy = SKIP_FIELD
\* and complexity = EXPERT
C11_AssessmentSkipped ==
    (/\ c_last.entry = "classify_field"
     /\ c_last.outcome = "returned"
     /\ c_last.path # "cache"
     /\ c_answer.fill_strategy = "skip_field"
     /\ c_answer.complexity = "expert")
        => /\ c_last.verdict.fill_strategy = SKIP_FIELD
           /\ c_last.verdict.complexity = "expert"

\* C28: every classification a call returns has a fill_strategy and a complexity
\* of the closed enums, and when the oracle's answer named a fill_strategy or a
\* complexity outside them the returned classification is the fallback
\* (SIMPLE_MAPPING, confidence below 0.8)
C28_UnrecognizedRejected ==
    c_last.outcome = "returned"
        => /\ c_last.verdict.fill_strategy \in FillStrategy
           /\ c_last.verdict.complexity \in FieldComplexity
           /\ (/\ c_last.path # "cache"
               /\ \/ c_answer.fill_strategy \notin FillStrategy
                  \/ c_answer.complexity \notin FieldComplexity)
                 => /\ c_last.verdict.fill_strategy = SIMPLE_MAPPING
                    /\ c_last.verdict.confidence < 80

\* the HTTP client hands the fallback classification for the call's prompt back
FallbackReturned ==
    /\ c_pc' = "ready"
    /\ c_answer' = get_fallback_classification(c_call.prompt)

\* C29: a call makes at most max_retries (3) requests; a request that comes to
\* HTTP 429, to 5xx or to a transport error or timeout is followed by another
\* request while the budget lasts and by the fallback classification when it is
\* used; any other status than 200 ends the call with the fallback classification
\* at once; and a call no request of which gave a JSON object ends with the
\* fallback classification
C29_RetryBudget ==
    [][ c_pc = "oracle"
            => /\ http_attempt < ServiceMaxRetries
               /\ http_last' \in {"429", "5xx", "transport error"}
                     => IF http_attempt + 1 < ServiceMaxRetries
                        THEN c_pc' = "oracle" /\ http_attempt' = http_attempt + 1
                        ELSE FallbackReturned
               /\ http_last' = "4xx" => FallbackReturned
               /\ (c_pc' = "ready" /\ http_last' \notin {"200 json", "200 fragment"})
                     => FallbackReturned ]_vars

\* the sum of the counts a statistics dictionary holds
RECURSIVE SumCounts(_)
SumCounts(d) ==
    IF DOMAIN d = {} THEN 0
    ELSE LET k == CHOOSE x \in DOMAIN d : TRUE
         IN  d[k] + SumCounts([x \in DOMAIN d \ {k} |-> d[x]])

\* C40: between calls, after any sequence of classify_field and clear_cache
\* calls, total_classified equals ai_calls, ai_calls plus cache_hits equals the
\* number of classify_field calls that completed, and the per-strategy counts
\* sum to total_classified
C40_StatsConsistent ==
    c_pc = "ready" =>
        /\ classification_stats.total_classified = classification_stats.ai_calls
        /\ classification_stats.ai_calls + classification_stats.cache_hits
               = cf_ended.returned
        /\ SumCounts(classification_stats.strategies)
               = classification_stats.total_classified

ClsNext ==
    \/ classify_field
    \/ classify
    \/ post_request
    \/ clear_cache

\* --------------------------------------------------------- fallback rules
\* deepseek_llm.py: the pattern rules applied to a prompt
ApplyFallback ==
    /\ \E prompt_lower \in Prompts :
        /\ fb_in' = prompt_lower
        /\ fb_out' = get_fallback_classification(prompt_lower)
    /\ fb_rule' = "deepseek_llm"
    /\ UNCHANGED nonFbVars

\* complete_ai_browser_agent.py: the pattern rules applied to a prompt
ApplyBrowserFallback ==
    /\ \E prompt_lower \in Prompts :
        /\ fb_in' = prompt_lower
        /\ fb_out' = browser_get_fallback_classification(prompt_lower)
    /\ fb_rule' = "complete_ai_browser_agent"
    /\ UNCHANGED nonFbVars

\* field_classifier.py: the parser's fallback for an answer it cannot convert
ApplyParseFallback ==
    /\ \E a \in OracleAnswers :
        /\ parse_ai_response(a).path = "parse_fallback"
        /\ fb_in' = a.keys
        /\ fb_out' = parse_ai_response(a).verdict
    /\ fb_rule' = "parse_ai_response"
    /\ UNCHANGED nonFbVars

FallbackOf(service, prompt_lower) ==
    IF service = "deepseek_llm"
    THEN get_fallback_classification(prompt_lower)
    ELSE browser_get_fallback_classification(prompt_lower)

\* the priority order of the pattern rules
RuleOrder == <<"name", "email", "phone", "gpa_school", "essay", "assessment">>

\* the words that make a prompt name-like, email-like, ...
RuleWords(rule) ==
    CASE rule = "name" -> {"name", "first name"}
      [] rule = "email" -> {"email"}
      [] rule = "phone" -> {"phone"}
      [] rule = "gpa_school" -> {"gpa", "university"}
      [] rule = "essay" -> {"tag=textarea", "cover letter"}
      [] rule = "assessment" -> {"assessment"}

\* an essay is a textarea with a cover-letter keyword; every other rule matches on
\* any of its words
RuleMatches(rule, prompt_lower) ==
    IF rule = "essay"
    THEN RuleWords(rule) \subseteq prompt_lower
    ELSE RuleWords(rule) \cap prompt_lower # {}

\* the first rule of the order that matches, None when none does
FirstMatch(prompt_lower) ==
    IF \E i \in DOMAIN RuleOrder : RuleMatches(RuleOrder[i], prompt_lower)
    THEN RuleOrder[CHOOSE i \in DOMAIN RuleOrder :
                     /\ RuleMatches(RuleOrder[i], prompt_lower)
                     /\ \A j \in 1..(i - 1) : ~RuleMatches(RuleOrder[j], prompt_lower)]
    ELSE None

\* C27: the pattern rules are tried in the order name-like, email-like,
\* phone-like, GPA/school-like, essay-textarea-like, assessment-like and the verdict
\* is the one of the first rule that matches (the verdict the rule gives for its
\* own words alone, which is not the no-match verdict); when no rule matches the
\* verdict is SimpleMapping with confidence between 0.4 and 0.6
C27_FallbackPriority ==
    fb_rule \in {"deepseek_llm", "complete_ai_browser_agent"}
        => IF FirstMatch(fb_in) = None
           THEN /\ fb_out.fill_strategy = "simple_mapping"
                /\ fb_out.confidence \in 40..60
           ELSE /\ fb_out = FallbackOf(fb_rule, fb_in \cap RuleWords(FirstMatch(fb_in)))
                /\ fb_out # FallbackOf(fb_rule, {})

FbNext ==
    \/ ApplyFallback
    \/ ApplyBrowserFallback
    \/ ApplyParseFallback

\* ------------------------------------------- enhanced workflow: routing
\* Largest retry_count of the states the routing functions are applied to.
MaxRetryCount == 4

\* enhanced_workflow.py create_enhanced_workflow: the route names registered for
\* the conditional edges out of a node
EnhancedEdges(from) ==
    IF from = "field_analysis"
    THEN {"simple_fill", "rag_fill", "option_selection", "human_review", "completion_check"}
    ELSE IF from = "validation"
    THEN {"field_analysis", "completion_check", "human_review"}
    ELSE IF from = "completion_check"
    THEN {"submit_form", "field_analysis", "human_review"}
    ELSE {}

\* enhanced_workflow.py route_after_field_analysis; st.current_field and
\* st.classification tell whether the state holds one
route_after_field_analysis(st) ==
    IF ~st.current_field THEN "completion_check"
    ELSE IF ~st.classification THEN "human_review"
    ELSE IF st.fill_strategy = SIMPLE_MAPPING THEN "simple_fill"
    ELSE IF st.fill_strategy = RAG_GENERATION THEN "rag_fill"
    ELSE IF st.fill_strategy = OPTION_SELECTION THEN "option_selection"
    ELSE IF st.fill_strategy = SKIP_FIELD THEN "field_analysis"
    ELSE "human_review"

\* enhanced_workflow.py route_after_validation: both branches on retry_count
\* return "field_analysis"
enhanced_route_after_validation(st) ==
    IF st.current_field
    THEN IF st.retry_count < 3 THEN "field_analysis" ELSE "field_analysis"
    ELSE "completion_check"

\* enhanced_workflow.py route_after_completion
route_after_completion(st) ==
    IF st.should_submit THEN "submit_form"
    ELSE IF st.field_queue THEN "field_analysis"
    ELSE "human_review"

\* the parts of an ApplicationState the routing functions read: whether there
\* is a current field, whether it carries a classification, the strategy of
\* that classification, retry_count, should_submit, whether field_queue is
\* non-empty
RoutedStates ==
    [current_field : BOOLEAN, classification : BOOLEAN, fill_strategy : FillStrategy,
     retry_count : 0..MaxRetryCount, should_submit : BOOLEAN, field_queue : BOOLEAN]

\* no routing function applied yet
EnhState0 ==
    /\ e_from = None
    /\ e_state = [current_field |-> FALSE, classification |-> FALSE,
                  fill_strategy |-> SIMPLE_MAPPING, retry_count |-> 0,
                  should_submit |-> FALSE, field_queue |-> FALSE]
    /\ e_route = None

\* the conditional edge out of field_analysis is evaluated on a state
RouteFieldAnalysis ==
    /\ \E st \in RoutedStates :
        /\ e_state' = st
        /\ e_route' = route_after_field_analysis(st)
    /\ e_from' = "field_analysis"
    /\ UNCHANGED nonEnhVars

\* the conditional edge out of validation is evaluated on a state
RouteValidation ==
    /\ \E st \in RoutedStates :
        /\ e_state' = st
        /\ e_route' = enhanced_route_after_validation(st)
    /\ e_from' = "validation"
    /\ UNCHANGED nonEnhVars

\* the conditional edge out of completion_check is evaluated on a state
RouteCompletion ==
    /\ \E st \in RoutedStates :
        /\ e_state' = st
        /\ e_route' = route_after_completion(st)
    /\ e_from' = "completion_check"
    /\ UNCHANGED nonEnhVars

\* C12: out of field analysis SimpleMapping goes to simple_fill, RagGeneration
\* to rag_fill, OptionSelection to the option node, SkipField to
\* field_analysis, and the route returned is one of the routes registered for
\* the field_analysis node
C12_RouteByStrategyRegistered ==
    (e_from = "field_analysis" /\ e_state.current_field /\ e_state.classification)
        => /\ e_state.fill_strategy = SIMPLE_MAPPING => e_route = "simple_fill"
           /\ e_state.fill_strategy = RAG_GENERATION => e_route = "rag_fill"
           /\ e_state.fill_strategy = OPTION_SELECTION => e_route = "option_selection"
           /\ e_state.fill_strategy = SKIP_FIELD => e_route = "field_analysis"
           /\ e_route \in EnhancedEdges("field_analysis")

EnhNext ==
    \/ RouteFieldAnalysis
    \/ RouteValidation
    \/ RouteCompletion

\* ---------------------------------------------------- repair strategist
\* how a call of _get_repair_strategy ends
PlanReturned(strategy) ==
    [outcome |-> "returned", strategy_type |-> strategy.strategy_type,
     confidence |-> strategy.confidence]

PlanRaised(error) == [outcome |-> "raised", strategy_type |-> error, confidence |-> 0]

\* repair_strategies.py SmartRepairSystem._get_repair_strategy: the class
\* defines _element_not_found_strategy only; _value_rejected_strategy,
\* _timeout_strategy, _access_denied_strategy and _unknown_failure_strategy are
\* attributes it does not have, so the dispatch to them raises AttributeError
get_repair_strategy(failure_type, retries) ==
    IF failure_type = ELEMENT_NOT_FOUND
    THEN PlanReturned(element_not_found_strategy(retries))
    ELSE PlanRaised("AttributeError")

\* no failure analysed yet
RepState0 ==
    /\ rp_error = {}
    /\ rp_retry = 0
    /\ rp_type = None
    /\ rp_plan = PlanRaised(None)

\* repair_strategies.py SmartRepairSystem.analyze_failure_node on a state with
\* some last_error and retry_count
analyze_failure_node ==
    /\ \E error \in Errors, retry_count_in \in 0..MaxRetryCount :
        /\ rp_error' = error
        /\ rp_retry' = retry_count_in
        /\ rp_type' = classify_failure(error)
        /\ rp_plan' = get_repair_strategy(classify_failure(error), retry_count_in)
    /\ UNCHANGED nonRepVars

\* C16: for a failure classified ElementNotFound, Timeout, ValueRejected or
\* Unknown the strategist returns a plan: alternative_selectors at retry 0,
\* wait_and_retry at retry 1, skip_field with confidence 1.0 from retry 2 on
C16_PlanByRetryCount ==
    rp_type \in {ELEMENT_NOT_FOUND, TIMEOUT, VALUE_REJECTED, UNKNOWN}
        => /\ rp_plan.outcome = "returned"
           /\ rp_retry = 0 => rp_plan.strategy_type = "alternative_selectors"
           /\ rp_retry = 1 => rp_plan.strategy_type = "wait_and_retry"
           /\ rp_retry >= 2 => /\ rp_plan.strategy_type = "skip_field"
                               /\ rp_plan.confidence = 100

\* the keyword groups in the order they are tested, each with its kind
KeywordGroups ==
    << [kind |-> ELEMENT_NOT_FOUND, keywords |-> {"not found", "no such element"}],
       [kind |-> TIMEOUT, keywords |-> {"timeout", "wait"}],
       [kind |-> VALUE_REJECTED, keywords |-> {"invalid", "rejected", "format"}],
       [kind |-> ACCESS_DENIED, keywords |-> {"access", "permission", "denied"}] >>

\* the groups a message has a keyword of
GroupsHit(error) ==
    {i \in DOMAIN KeywordGroups : KeywordGroups[i].keywords \cap error # {}}

\* C31: every error text gets one kind: the kind of the earliest of the groups
\* ElementNotFound, Timeout, ValueRejected, AccessDenied it holds a keyword of,
\* and Unknown when it holds none
C31_FirstMatchTotal ==
    rp_type # None
        => IF GroupsHit(rp_error) = {}
           THEN rp_type = UNKNOWN
           ELSE \E i \in GroupsHit(rp_error) :
                   /\ \A j \in GroupsHit(rp_error) : i <= j
                   /\ rp_type = KeywordGroups[i].kind

\* C31: a text with a Timeout keyword and an AccessDenied keyword is a Timeout
C31_Witness ==
    /\ rp_error = {"wait", "denied"}
    /\ rp_type = TIMEOUT

RepNext ==
    \/ analyze_failure_node

\* ------------------------------------------------- measures and tests
\* Most actions in completed_actions, and in failed_actions, of an evaluation.
MaxActionCount == 4

\* nothing evaluated yet
PureState0 ==
    /\ p_fn = None
    /\ p_in = None
    /\ p_out = None

\* a rate as a fraction
Rate(num, den) == [num |-> num, den |-> den]

\* success_rate with an empty record counted as full success
success_rate_EmptyIsOne(completed, failed) ==
    IF completed + failed = 0 THEN Rate(1, 1) ELSE Rate(completed, completed + failed)

\* models/plan.py ExecutionResult.success_rate (with total_actions)
success_rate(completed, failed) ==
    IF completed + failed = 0 THEN Rate(0, 1) ELSE Rate(completed, completed + failed)

\* the first n action ids, as a list
FirstActions(n) == [i \in 1..n |-> i]

\* Each evaluation below starts from the state in which nothing was evaluated yet.

\* ExecutionResult.success_rate is read on a result
EvalSuccessRate ==
    /\ p_fn = None
    /\ \E completed \in 0..MaxActionCount, failed \in 0..MaxActionCount :
        /\ p_in' = [completed |-> completed, failed |-> failed]
        /\ p_out' = success_rate(completed, failed)
    /\ p_fn' = "success_rate"
    /\ UNCHANGED nonPureVars

\* agent.py _should_submit is evaluated on a plan and the agent's two lists
EvalShouldSubmit ==
    /\ p_fn = None
    /\ \E completed \in 0..MaxActionCount, failed \in 0..MaxActionCount,
          auto \in BOOLEAN, sub \in BOOLEAN, est \in PlanCompletions :
        /\ p_in' = [completed |-> completed, failed |-> failed, auto_submit |-> auto,
                    includes_submit |-> sub, estimated_completion |-> est]
        /\ p_out' = ShouldSubmit(auto, [actions |-> <<>>, includes_submit |-> sub,
                                        estimated_completion |-> est],
                                 FirstActions(completed), FirstActions(failed))
    /\ p_fn' = "_should_submit"
    /\ UNCHANGED nonPureVars

\* agent.py _estimate_completion: 0.15 for each completed action, at most 1.0
estimate_completion(completed) ==
    IF Len(completed) = 0 THEN Rate(0, 100)
    ELSE IF Len(completed) * 15 > 100 THEN Rate(100, 100)
    ELSE Rate(Len(completed) * 15, 100)

\* _estimate_completion is evaluated after a session that first observed
\* total fields and completed some of them
EvalEstimateCompletion ==
    /\ p_fn = None
    /\ \E total \in 1..MaxActionCount :
        \E completed \in 0..total :
            /\ p_in' = [completed |-> completed, total |-> total]
            /\ p_out' = estimate_completion(FirstActions(completed))
    /\ p_fn' = "_estimate_completion"
    /\ UNCHANGED nonPureVars

\* C23: the completion reported is the number of completed fields divided by
\* the number of fields first observed, so it is 1 exactly when all of them
\* are completed
C23_CompletionIsFraction ==
    p_fn = "_estimate_completion"
        => /\ p_out.num * p_in.total = p_in.completed * p_out.den
           /\ (p_out.num = p_out.den) <=> (p_in.completed = p_in.total)

\* Longest value typed into, or read back from, a field.
MaxStrLen == 2

\* the characters of a value: a lower-case and an upper-case letter, a blank,
\* a digit, a punctuation mark
Chars == {"a", "A", " ", "1", "-"}

\* the values, as lists of characters
Strings == UNION {[1..n -> Chars] : n \in 0..MaxStrLen}

\* str.lower()
Lower(str) == [i \in 1..Len(str) |-> IF str[i] = "A" THEN "a" ELSE str[i]]

RECURSIVE LStrip(_)
LStrip(str) == IF Len(str) > 0 /\ Head(str) = " " THEN LStrip(Tail(str)) ELSE str

RECURSIVE RStrip(_)
RStrip(str) ==
    IF Len(str) > 0 /\ str[Len(str)] = " " THEN RStrip(SubSeq(str, 1, Len(str) - 1)) ELSE str

\* str.strip()
Strip(str) == RStrip(LStrip(str))

\* x in y, for strings
IsSubstring(x, y) ==
    /\ Len(x) <= Len(y)
    /\ \E i \in 0..(Len(y) - Len(x)) : SubSeq(y, i + 1, i + Len(x)) = x

\* re.sub(r'\D', '', s): the digits of a value
Digits(str) == SelectSeq(str, LAMBDA c : c = "1")

\* browser.py BrowserRunner.verify_field on an element whose value is actual:
\* both sides stripped, then compared; returns (success, actual_value)
verify_field(expected, actual) ==
    [success |-> Strip(actual) = Strip(expected), actual_value |-> Strip(actual)]

\* is_close_enough with the substring test in one direction only
is_close_enough_OneWay(expected, actual) ==
    IF Len(expected) = 0 \/ Len(actual) = 0 THEN expected = actual
    ELSE LET expected_clean == Strip(expected)
             actual_clean == Strip(actual)
         IN  IF expected_clean = actual_clean THEN TRUE
             ELSE IF Lower(expected_clean) = Lower(actual_clean) THEN TRUE
             ELSE IsSubstring(expected_clean, actual_clean)

\* agent.py _is_close_enough
is_close_enough(expected, actual) ==
    IF Len(expected) = 0 \/ Len(actual) = 0 THEN expected = actual
    ELSE LET expected_clean == Strip(expected)
             actual_clean == Strip(actual)
         IN  IF expected_clean = actual_clean THEN TRUE
             ELSE IF Lower(expected_clean) = Lower(actual_clean) THEN TRUE
             ELSE IsSubstring(expected_clean, actual_clean)
                    \/ IsSubstring(actual_clean, expected_clean)

\* agent.py _execute_single_action, lines 229-241: what counts as a verified
\* fill of a 'type' or 'select' action with a value
FillVerified(expected, actual) ==
    LET v == verify_field(expected, actual)
    IN  v.success \/ is_close_enough(expected, v.actual_value)

\* the tolerance rules, on the trimmed values of a field of some type
ToleranceRules(expected, actual, field_type) ==
    LET e == Strip(expected)
        a == Strip(actual)
    IN  \/ e = a
        \/ Lower(e) = Lower(a)
        \/ IsSubstring(e, a) \/ IsSubstring(a, e)
        \/ field_type = "phone" /\ Digits(e) = Digits(a)
        \/ field_type = "email" /\ Lower(e) = Lower(a)

\* the agent verifies a fill: action.value is expected (not empty), the field
\* reads actual
EvalFillVerified ==
    /\ p_fn = None
    /\ \E expected \in Strings \ {<<>>}, actual \in Strings,
          field_type \in {"text", "phone", "email"} :
        /\ p_in' = [expected |-> expected, actual |-> actual, field_type |-> field_type]
        /\ p_out' = FillVerified(expected, actual)
    /\ p_fn' = "verify"
    /\ UNCHANGED nonPureVars

\* C24: a fill counts as verified exactly when the trimmed expected and actual
\* values pass one of the tolerance rules: equal, equal ignoring case, one a
\* substring of the other, equal digits for a phone field, equal in lower case
\* for an email field
C24_VerifiedIffRulePasses ==
    p_fn = "verify"
        => (p_out <=> ToleranceRules(p_in.expected, p_in.actual, p_in.field_type))

\* C22: success_rate is completed / (completed + failed), and 0 when nothing
\* was attempted; _should_submit refuses when nothing was attempted, and where
\* it accepts the success rate of the same counts is at least 0.95
C22_SuccessRate ==
    /\ p_fn = "success_rate"
        => IF p_in.completed + p_in.failed = 0
           THEN p_out.num = 0 /\ p_out.den > 0
           ELSE p_out.num * (p_in.completed + p_in.failed) = p_in.completed * p_out.den
                    /\ p_out.den > 0
    /\ p_fn = "_should_submit"
        => /\ p_in.completed + p_in.failed = 0 => p_out = FALSE
           /\ p_out = TRUE
                => LET r == success_rate(p_in.completed, p_in.failed)
                   IN  r.num * 100 >= 95 * r.den

C22_Witness ==
    /\ p_fn = "_should_submit"
    /\ p_in.completed + p_in.failed = 0
    /\ p_in.auto_submit /\ p_in.includes_submit /\ p_in.estimated_completion >= 90
    /\ p_out = FALSE

\* routing.py route_after_validation is evaluated on a state: requires_human,
\* should_submit, current_field (a field or None) and retry_count
EvalRouteAfterValidation ==
    /\ p_fn = None
    /\ \E req_human \in BOOLEAN, submit \in BOOLEAN, cur \in {NoField, 1},
          retries \in 0..MaxRetryCount :
        /\ p_in' = [requires_human |-> req_human, should_submit |-> submit,
                    current_field |-> cur, retry_count |-> retries]
        /\ p_out' = route_after_validation(req_human, submit, cur, retries)
    /\ p_fn' = "route_after_validation"
    /\ UNCHANGED nonPureVars

\* C36: in route_after_validation a pending human-review request comes first:
\* with requires_human set the route is human_review, also when should_submit is
\* set or no field is left, and the route is submit_form only with
\* requires_human not set
C36_HumanReviewDominates ==
    p_fn = "route_after_validation"
        => /\ p_in.requires_human => p_out = "human_review"
           /\ p_out = "submit_form" => ~p_in.requires_human

\* C36: requires_human and should_submit both set, no field left
C36_Witness ==
    /\ p_fn = "route_after_validation"
    /\ p_in.requires_human
    /\ p_in.should_submit
    /\ p_in.current_field = NoField
    /\ p_out = "human_review"

\* agent.py _is_close_enough is evaluated on two values, in both orders, and on
\* the first value with itself
EvalIsCloseEnough ==
    /\ p_fn = None
    /\ \E a \in Strings, b \in Strings :
        /\ p_in' = [a |-> a, b |-> b]
        /\ p_out' = [ab |-> is_close_enough(a, b), ba |-> is_close_enough(b, a),
                     aa |-> is_close_enough(a, a)]
    /\ p_fn' = "_is_close_enough"
    /\ UNCHANGED nonPureVars

\* C38: _is_close_enough(a, a) holds and _is_close_enough(a, b) equals
\* _is_close_enough(b, a) for all values a and b, the empty value included
C38_ReflexiveSymmetric ==
    p_fn = "_is_close_enough"
        => /\ p_out.aa
           /\ p_out.ab <=> p_out.ba

\* C38: a value and a longer value that contains it are close in both orders,
\* and the empty value and a non-empty one in neither
C38_Witness ==
    /\ p_fn = "_is_close_enough"
    /\ p_in = [a |-> <<"a">>, b |-> <<"1", "a">>]
    /\ p_out = [ab |-> TRUE, ba |-> TRUE, aa |-> TRUE]
    /\ ~is_close_enough(<<>>, p_in.a)
    /\ ~is_close_enough(p_in.a, <<>>)

PureNext ==
    \/ EvalSuccessRate
    \/ EvalShouldSubmit
    \/ EvalEstimateCompletion
    \/ EvalFillVerified
    \/ EvalRouteAfterValidation
    \/ EvalIsCloseEnough

\* ---------------------------------------------- two classifier instances
\* the two sessions, each with a classifier instance of its own
Sessions == {1, 2}

\* the classifications an instance obtains for a field
SessionVerdicts == {SIMPLE_MAPPING, RAG_GENERATION}

\* every instance reading and writing one process-wide dictionary
CacheOf_ProcessWide(session) == 1

\* field_classifier.py AIFirstFieldClassifier.__init__ (line 230) and
\* ai_field_classifier.py AIFieldClassifier.__init__ (line 48):
\* self.classification_cache = {} gives every instance a dictionary of its own
CacheOf(session) == session

\* ai_field_classifier.py AIFieldClassifier._generate_cache_key: the digest of
\* six components
ai_generate_cache_key(element, page_context) ==
    <<element.selector, element.type, element.placeholder, element.text,
      page_context.title, page_context.nearby_text[element.selector]>>

\* _generate_cache_key of the class
KeyOf(class, element, page_context) ==
    IF class = "AIFieldClassifier"
    THEN ai_generate_cache_key(element, page_context)
    ELSE generate_cache_key(element, page_context)

NoSessionCall ==
    [session |-> 0, input |-> <<BaseElement, BaseContext>>, path |-> None,
     verdict |-> None, stored_for |-> <<>>, stored_by |-> 0]

SessState0(class) ==
    /\ s_class = class
    /\ s_cache = [slot \in Sessions |-> EmptyDict]
    /\ s_last = NoSessionCall

\* no instance in use
SessIdle == SessState0(None)

SessInit == \E class \in {"AIFirstFieldClassifier", "AIFieldClassifier"} : SessState0(class)

\* classify_field (AIFirstFieldClassifier, use_cache set) or classify_field_with_ai
\* (AIFieldClassifier) of one session's instance: a key found in the cache
\* returns the entry, otherwise the classification obtained is stored and returned
SessionClassify ==
    /\ \E session \in Sessions, input \in Inputs, verdict \in SessionVerdicts :
        LET cache_key == KeyOf(s_class, input[1], input[2])
            slot == CacheOf(session)
        IN  IF cache_key \in DOMAIN s_cache[slot]
            THEN /\ s_last' = [session |-> session, input |-> input, path |-> "cache",
                               verdict |-> s_cache[slot][cache_key].verdict,
                               stored_for |-> s_cache[slot][cache_key].stored_for,
                               stored_by |-> s_cache[slot][cache_key].stored_by]
                 /\ UNCHANGED s_cache
            ELSE /\ s_cache' =
                        [s_cache EXCEPT ![slot] =
                            Put(@, cache_key,
                                [verdict |-> verdict,
                                 stored_for |-> generate_cache_key(input[1], input[2]),
                                 stored_by |-> session])]
                 /\ s_last' = [session |-> session, input |-> input, path |-> "oracle",
                               verdict |-> verdict,
                               stored_for |-> generate_cache_key(input[1], input[2]),
                               stored_by |-> session]
    /\ UNCHANGED s_class
    /\ UNCHANGED nonSessVars

\* C25: a verdict returned from the cache was stored for a pair with the same
\* selector, tag, input type, placeholder, text, required flag, attributes,
\* page title and nearby text as the pair it is returned for
C25_FingerprintCoversNine ==
    s_last.path = "cache"
        => s_last.stored_for = generate_cache_key(s_last.input[1], s_last.input[2])

\* C26: a verdict a session takes from the cache was stored by that session,
\* and a call of one session leaves the other session's cache as it was
C26_SessionScopedCache ==
    [][ /\ s_last'.path = "cache" => s_last'.stored_by = s_last'.session
        /\ \A other \in Sessions :
              other # s_last'.session => s_cache'[other] = s_cache[other] ]_vars

\* session 2 is answered from its own cache while session 1 holds another
\* verdict for the same key
C26_Witness ==
    /\ s_last.path = "cache"
    /\ s_last.session = 2
    /\ LET cache_key == KeyOf(s_class, s_last.input[1], s_last.input[2])
       IN  /\ cache_key \in DOMAIN s_cache[1]
           /\ s_cache[1][cache_key].verdict # s_last.verdict

SessNext ==
    \/ SessionClassify

\* ------------------------------------------------------------ graph agent
\* how GraphJobApplicationAgent.run can end
RunReturned(final, completed, failed) ==
    [outcome |-> "returned",
     success |-> final \in {"submitted", "ready_for_submit"},
     final_state |-> final, completed_fields |-> completed, failed_actions |-> failed]

RunRaised == [outcome |-> "raised", success |-> FALSE, final_state |-> None,
              completed_fields |-> 0, failed_actions |-> 0]

NoRunResult == [outcome |-> None, success |-> FALSE, final_state |-> None,
                completed_fields |-> 0, failed_actions |-> 0]

GraphRunState0(pc) ==
    /\ gr_pc = pc
    /\ gr_closed = 0
    /\ gr_result = NoRunResult

\* the graph agent, idle while another component runs
GraphRunIdle == GraphRunState0("idle")

\* graph_agent.py lines 58-59: finally: await self.browser.close()
GraphRunFinally == gr_closed' = gr_closed + 1

\* graph_agent.py line 43: await self.browser.start(), before the try statement
GraphRunStart ==
    /\ gr_pc = "start"
    /\ \E ok \in BOOLEAN :
        IF ok
        THEN gr_pc' = "goto" /\ UNCHANGED gr_result
        ELSE gr_pc' = "done" /\ gr_result' = RunRaised
    /\ UNCHANGED gr_closed
    /\ UNCHANGED nonRunVars

\* graph_agent.py line 44: await self.browser.goto(url), before the try statement
GraphRunGoto ==
    /\ gr_pc = "goto"
    /\ \E ok \in BOOLEAN :
        IF ok
        THEN gr_pc' = "invoke" /\ UNCHANGED gr_result
        ELSE gr_pc' = "done" /\ gr_result' = RunRaised
    /\ UNCHANGED gr_closed
    /\ UNCHANGED nonRunVars

\* graph_agent.py lines 47-59: the try statement: the graph runs to a terminal
\* node and its final state becomes the ExecutionResult, or the graph raises;
\* either way the finally clause runs
GraphRunInvoke ==
    /\ gr_pc = "invoke"
    /\ \/ \E final \in {"submitted", "paused_for_human"},
             completed \in 0..MaxFields, failed \in 0..MaxFields :
            /\ completed + failed <= MaxFields
            /\ gr_result' = RunReturned(final, completed, failed)
       \/ gr_result' = RunRaised
    /\ GraphRunFinally
    /\ gr_pc' = "done"
    /\ UNCHANGED nonRunVars

\* C37: whichever way GraphJobApplicationAgent.run is left, with a result or
\* with an exception, browser.close() was executed exactly once
C37_BrowserClosedOnce ==
    gr_pc = "done" => gr_closed = 1

GraphRunNext ==
    \/ GraphRunStart
    \/ GraphRunGoto
    \/ GraphRunInvoke

\* ------------------------------------------------------ browser agent
\* Most form elements on a page of the browser agent.
MaxFormElements == 3

\* the classifications AIFirstFieldClassifier.classify_field can hand back:
\* strategy, confidence in percent, whether a non-empty value came with it
Classifications ==
    [strategy : {"simple_mapping", "option_selection", "rag_generation", "skip_field"},
     confidence : {60, 90}, value : BOOLEAN]

\* FillCriteria with a confidence of exactly 0.6 accepted
FillCriteria_AtLeast60(c) ==
    /\ c.confidence >= 60
    /\ c.strategy \in {"simple_mapping", "option_selection"}
    /\ c.value

\* complete_ai_browser_agent.py _execute_real_form_filling: the test that
\* decides whether a field is filled
FillCriteria(c) ==
    /\ c.confidence > 60
    /\ c.strategy \in {"simple_mapping", "option_selection"}
    /\ c.value

ApplyState0(pc) ==
    /\ ap_pc = pc
    /\ live_mode \in BOOLEAN
    /\ form_elements = 0
    /\ classified_fields = <<>>
    /\ fill_outcomes = <<>>
    /\ ap_result = None

\* the browser agent, idle while another component runs
ApplyIdle ==
    /\ ap_pc = "idle"
    /\ live_mode = FALSE
    /\ form_elements = 0
    /\ classified_fields = <<>>
    /\ fill_outcomes = <<>>
    /\ ap_result = None

ApplyInit == ApplyState0("start")

\* apply_to_job, steps 1-3: start the browser, navigate, analyze_page_forms; an
\* exception returns False, and so does a page without form elements
ApplyAnalyze ==
    /\ ap_pc = "start"
    /\ \E n \in 0..MaxFormElements, ok \in BOOLEAN :
        IF ~ok \/ n = 0
        THEN /\ ap_result' = "False"
             /\ ap_pc' = "done"
             /\ UNCHANGED form_elements
        ELSE /\ form_elements' = n
             /\ ap_pc' = "classify"
             /\ UNCHANGED ap_result
    /\ UNCHANGED <<live_mode, classified_fields, fill_outcomes>>
    /\ UNCHANGED nonApplyVars

\* apply_to_job, step 4: one pass of "for i, field_info in enumerate(form_elements, 1)";
\* after the last field the plan is shown (step 5) and, unless live_mode is
\* set, apply_to_job returns True (step 6)
ApplyClassify ==
    /\ ap_pc = "classify"
    /\ Len(classified_fields) < form_elements
    /\ \E c \in Classifications : classified_fields' = Append(classified_fields, c)
    /\ IF Len(classified_fields') < form_elements
       THEN ap_pc' = "classify" /\ UNCHANGED ap_result
       ELSE IF live_mode
       THEN ap_pc' = "fill" /\ UNCHANGED ap_result
       ELSE ap_pc' = "done" /\ ap_result' = "True"
    /\ UNCHANGED <<live_mode, form_elements, fill_outcomes>>
    /\ UNCHANGED nonApplyVars

\* _execute_real_form_filling: one pass of "for field_data in classified_fields"
ApplyFill ==
    /\ ap_pc = "fill"
    /\ Len(fill_outcomes) < Len(classified_fields)
    /\ LET c == classified_fields[Len(fill_outcomes) + 1] IN
        IF FillCriteria(c)
        THEN \E success \in BOOLEAN :
                fill_outcomes' = Append(fill_outcomes, IF success THEN "filled" ELSE "failed")
        ELSE fill_outcomes' = Append(fill_outcomes, "left")
    /\ UNCHANGED <<ap_pc, live_mode, form_elements, classified_fields, ap_result>>
    /\ UNCHANGED nonApplyVars

\* _execute_real_form_filling after the loop: screenshot, submit or review
\* pause, return True; an exception of the screenshot returns False through
\* apply_to_job's handler
ApplyFinish ==
    /\ ap_pc = "fill"
    /\ Len(fill_outcomes) = Len(classified_fields)
    /\ \E ok \in BOOLEAN : ap_result' = IF ok THEN "True" ELSE "False"
    /\ ap_pc' = "done"
    /\ UNCHANGED <<live_mode, form_elements, classified_fields, fill_outcomes>>
    /\ UNCHANGED nonApplyVars

\* C19: when a field is classified, every field before it in the queue already
\* has its outcome
C19_OutcomeBeforeNextClassification ==
    [][ Len(classified_fields') > Len(classified_fields)
            => Len(fill_outcomes) >= Len(classified_fields) ]_vars

\* C32: fill_field was called for a classified field only if its confidence is
\* above 0.6, its strategy is simple_mapping or option_selection and it has a
\* non-empty value; a field classified skip_field or rag_generation is not filled
C32_FillOnlyWhenCriteriaMet ==
    \A i \in DOMAIN fill_outcomes :
        /\ fill_outcomes[i] \in {"filled", "failed"}
              => /\ classified_fields[i].confidence > 60
                 /\ classified_fields[i].strategy \in {"simple_mapping", "option_selection"}
                 /\ classified_fields[i].value
        /\ classified_fields[i].strategy \in {"skip_field", "rag_generation"}
              => fill_outcomes[i] = "left"

\* C32: a pass that filled an option_selection field at 0.9 and left a
\* simple_mapping field at exactly 0.6 and a skip_field field at 0.9, values given
C32_Witness ==
    /\ Len(fill_outcomes) = 3
    /\ classified_fields[1] = [strategy |-> "option_selection", confidence |-> 90, value |-> TRUE]
    /\ fill_outcomes[1] = "filled"
    /\ classified_fields[2] = [strategy |-> "simple_mapping", confidence |-> 60, value |-> TRUE]
    /\ fill_outcomes[2] = "left"
    /\ classified_fields[3] = [strategy |-> "skip_field", confidence |-> 90, value |-> TRUE]
    /\ fill_outcomes[3] = "left"

ApplyNext ==
    \/ ApplyAnalyze
    \/ ApplyClassify
    \/ ApplyFill
    \/ ApplyFinish

InitRun ==
    GraphIdle /\ AgentIdle /\ ClsIdle /\ FbState0 /\ EnhState0 /\ RepState0 /\ ApplyIdle
    /\ PureState0 /\ SessIdle /\ GraphRunState0("start")

SpecRun == InitRun /\ [][GraphRunNext]_vars

InitApply ==
    GraphIdle /\ AgentIdle /\ ClsIdle /\ FbState0 /\ EnhState0 /\ RepState0 /\ ApplyInit
    /\ PureState0 /\ SessIdle /\ GraphRunIdle

SpecApply == InitApply /\ [][ApplyNext]_vars

InitSess ==
    GraphIdle /\ AgentIdle /\ ClsIdle /\ FbState0 /\ EnhState0 /\ RepState0 /\ ApplyIdle
    /\ PureState0 /\ SessInit /\ GraphRunIdle

SpecSess == InitSess /\ [][SessNext]_vars

InitPure ==
    GraphIdle /\ AgentIdle /\ ClsIdle /\ FbState0 /\ EnhState0 /\ RepState0 /\ ApplyIdle
    /\ PureState0 /\ SessIdle /\ GraphRunIdle

SpecPure == InitPure /\ [][PureNext]_vars

InitRep == GraphIdle /\ AgentIdle /\ ClsIdle /\ FbState0 /\ EnhState0 /\ RepState0
    /\ ApplyIdle /\ PureState0 /\ SessIdle /\ GraphRunIdle

SpecRep == InitRep /\ [][RepNext]_vars

InitEnh == GraphIdle /\ AgentIdle /\ ClsIdle /\ FbState0 /\ EnhState0 /\ RepState0
    /\ ApplyIdle /\ PureState0 /\ SessIdle /\ GraphRunIdle

SpecEnh == InitEnh /\ [][EnhNext]_vars

InitCls == GraphIdle /\ AgentIdle /\ ClsInit /\ FbState0 /\ EnhState0 /\ RepState0
    /\ ApplyIdle /\ PureState0 /\ SessIdle /\ GraphRunIdle

SpecCls == InitCls /\ [][ClsNext]_vars

InitFallback == GraphIdle /\ AgentIdle /\ ClsIdle /\ FbState0 /\ EnhState0 /\ RepState0
    /\ ApplyIdle /\ PureState0 /\ SessIdle /\ GraphRunIdle

SpecFallback == InitFallback /\ [][FbNext]_vars

InitAgent == GraphIdle /\ AgentInit /\ ClsIdle /\ FbState0 /\ EnhState0 /\ RepState0
    /\ ApplyIdle /\ PureState0 /\ SessIdle /\ GraphRunIdle

SpecAgent == InitAgent /\ [][AgentNext]_vars

Init == GraphInit /\ AgentIdle /\ ClsIdle /\ FbState0 /\ EnhState0 /\ RepState0
    /\ ApplyIdle /\ PureState0 /\ SessIdle /\ GraphRunIdle

Next == GraphNext

Spec == Init /\ [][Next]_vars

\* The compiled graph runs the node the last edge selected, again and again,
\* until an edge leads to END: a run never stops while a node is pending.
GraphNextLive ==
    \/ page_analysis_node_short
    \/ field_analysis_node
    \/ simple_fill_node
    \/ rag_fill_node
    \/ option_fill_node
    \/ skip_field_node
    \/ validation_node
    \/ repair_strategy_node
    \/ completion_check_node
    \/ human_review_node
    \/ submit_form_node

SpecLive == Init /\ [][GraphNextLive]_vars /\ WF_vars(GraphNextLive)

====
